---- MODULE Spec2Model ----
(***************************************************************************)
(* PlantPal backend: the relational tables and the request handlers of the *)
(* users, plants, achievements and storefront routers as a state machine.  *)
(* Tables are sequences of rows in insertion order, so that a duplicate    *)
(* row is representable and Query(...).first() is the first match.        *)
(* Timestamps are calendar days (the only granularity the code reads).     *)
(* A failing database call is an input of the handlers that catch it.      *)
(***************************************************************************)
EXTENDS Integers, Sequences, FiniteSets, TLC

VARIABLES
    today,      \* datetime.utcnow().date(), as a day number
    users,      \* table users
    plants,     \* table plants
    scans,      \* table plant_scans
    catalog,    \* table achievements
    uas,        \* table user_achievements
    coupons,    \* table user_coupons
    resp,       \* the last request and its response
    jwks_cache, \* the lru_cache of get_cognito_public_keys, one per process
    inflight    \* requests that have read the database and not yet committed

vars == <<today, users, plants, scans, catalog, uas, coupons, resp,
          jwks_cache, inflight>>

\* The key-set cache before the first successful fetch.
NotFetched == [hit |-> FALSE, keys |-> <<>>]

\* Python's None / SQL NULL for a scalar, and for "no such row".
None == "None"

NoRow == [id |-> 0]

Found(row) == row.id # 0

\* The last request (operation, caller's subject id, arguments) and what the
\* handler answered (HTTP status, error detail, response body).
Response(op, caller, req, status, detail, body) ==
    [op |-> op, caller |-> caller, req |-> req, status |-> status,
     detail |-> detail, body |-> body]

NoResp == Response("none", None, NoRow, 0, "", NoRow)

-----------------------------------------------------------------------------
(* Bounds of the model. *)

MaxDay == 4
MaxPerDay == 2
MaxPlants == 2
GameDays == 1
MaxValue == 2

-----------------------------------------------------------------------------
(* Generic helpers over tables. *)

Range(s) == {s[i] : i \in 1..Len(s)}

RECURSIVE SeqSum(_)
SeqSum(s) == IF s = <<>> THEN 0 ELSE Head(s) + SeqSum(Tail(s))

Max(a, b) == IF a >= b THEN a ELSE b

\* Python truthiness of an optional string: None and "" are falsy.
Truthy(v) == v # None /\ v # ""

\* a or b
Or(a, b) == IF Truthy(a) THEN a ELSE b

Min(S) == CHOOSE i \in S : \A j \in S : i <= j

\* Query.first() over the rows at the matching positions idx: the first
\* matching row in table order, or None.
First(rows, idx) == IF idx = {} THEN NoRow ELSE rows[Min(idx)]

-----------------------------------------------------------------------------
(* Identity claims and the users router. *)

Subjects == {"sub-a", "sub-b"}
Emails == {"a@x", "b@x"}
NameClaims == {None, "Ann"}
UsernameClaims == {None, "ann01"}
Names == {"Ann", "Bob"}

\* The token payloads the identity provider may issue.
Payloads ==
    [sub : Subjects, email : Emails, name : NameClaims, username : UsernameClaims]

\* auth.get_current_user_info: payload.get("name", payload.get("cognito:username"))
get_current_user_info(payload) ==
    [cognito_user_id |-> payload.sub,
     email           |-> payload.email,
     name            |-> IF payload.name # None THEN payload.name ELSE payload.username,
     username        |-> payload.username]

UserBySub(sub) ==
    First(users, {i \in 1..Len(users) : users[i].cognito_user_id = sub})

\* The unique indexes of table users (cognito_user_id, email): an INSERT that
\* repeats either value raises IntegrityError.
UsersInsertOk(row) ==
    \A i \in 1..Len(users) :
        /\ users[i].cognito_user_id # row.cognito_user_id
        /\ users[i].email # row.email

\* uuid4 primary key: a value no earlier row holds.
NewUserId == Len(users) + 1

\* user_info.get("name") or user_info.get("username") or "Plant Lover"
MeName(user_info) == Or(user_info.name, Or(user_info.username, "Plant Lover"))

\* Mutant of Missing: the lookup result is ignored and the insert always runs.
MissingNever(user) == TRUE

\* if not user: / if existing_user: (the existence check before the insert)
Missing(user) == ~Found(user)

\* GET /api/v1/users/me
get_current_user(payload) ==
    LET user_info == get_current_user_info(payload)
        user == UserBySub(user_info.cognito_user_id)
        row  == [id |-> NewUserId,
                 cognito_user_id |-> user_info.cognito_user_id,
                 email |-> user_info.email,
                 name |-> MeName(user_info)]
    IN  /\ IF Missing(user)
           THEN IF UsersInsertOk(row)
                THEN /\ users' = Append(users, row)
                     /\ resp' = Response("GET /users/me", payload.sub, payload, 200, "", row)
                ELSE \* IntegrityError caught by the handler's except: 500
                     /\ users' = users
                     /\ resp' = Response("GET /users/me", payload.sub, payload, 500,
                                          "Internal server error", NoRow)
           ELSE /\ users' = users
                /\ resp' = Response("GET /users/me", payload.sub, payload, 200, "", user)
        /\ UNCHANGED <<jwks_cache, inflight,
                       today, plants, scans, catalog, uas, coupons>>

\* POST /api/v1/users/
create_user(body) ==
    LET existing_user == UserBySub(body.cognito_user_id)
        row == [id |-> NewUserId,
                cognito_user_id |-> body.cognito_user_id,
                email |-> body.email,
                name |-> body.name]
    IN  /\ IF Missing(existing_user)
           THEN IF UsersInsertOk(row)
                THEN /\ users' = Append(users, row)
                     /\ resp' = Response("POST /users", body.cognito_user_id, body, 200, "", row)
                ELSE \* unhandled IntegrityError: 500
                     /\ users' = users
                     /\ resp' = Response("POST /users", body.cognito_user_id, body, 500,
                                          "Internal Server Error", NoRow)
           ELSE /\ users' = users
                /\ resp' = Response("POST /users", body.cognito_user_id, body, 200, "",
                                     existing_user)
        /\ UNCHANGED <<jwks_cache, inflight,
                       today, plants, scans, catalog, uas, coupons>>


\* The database after create_all: every table empty.
InitDB ==
    /\ today = 0
    /\ jwks_cache = NotFetched
    /\ inflight = <<>>
    /\ users = <<>>
    /\ plants = <<>>
    /\ scans = <<>>
    /\ catalog = <<>>
    /\ uas = <<>>
    /\ coupons = <<>>
    /\ resp = NoResp

NextUsers ==
    \/ \E payload \in Payloads : get_current_user(payload)
    \/ \E body \in [cognito_user_id : Subjects, email : Emails, name : Names] :
           create_user(body)

SpecUsers == InitDB /\ [][NextUsers]_vars

-----------------------------------------------------------------------------
(* The plants router. *)

\* Optional numbers: None is NoneNum; a field left out of a PATCH body is Unset
\* (strings) or UnsetNum (numbers).
NoneNum == -1
Unset == "Unset"
UnsetNum == -2

PlantIds == 1..MaxPlants

\* uuid4 primary key of a new plant: a value no stored plant holds.
NewPlantId ==
    CHOOSE i \in PlantIds :
        /\ \A k \in 1..Len(plants) : plants[k].id # i
        /\ \A j \in PlantIds : (\A k \in 1..Len(plants) : plants[k].id # j) => i <= j

\* The add-to-garden bodies the client sends: a bare plant, and a plant that
\* carries the scan that identified it.
AddRequests ==
    { [plant_name |-> "Fern", species |-> "Nephrolepis", health_score |-> NoneNum,
       plant_icon |-> None, care_notes |-> None, disease_detected |-> None,
       is_healthy |-> None],
      [plant_name |-> "Fern", species |-> "Nephrolepis", health_score |-> 60,
       plant_icon |-> None, care_notes |-> "water weekly",
       disease_detected |-> "Blight", is_healthy |-> "False"] }

\* request.health_score or 100.0
HealthOr(v) == IF v = NoneNum \/ v = 0 THEN 100 ELSE v

NotFoundUser(op, sub, req) == Response(op, sub, req, 404, "User not found", NoRow)

\* Where a database call inside a handler's try block raises: nowhere, at a
\* call up to and including db.commit(), or at a call that follows the commit.
DbFaults == {"none", "commit", "after_commit"}

\* POST /api/v1/plants/add-to-garden
add_to_garden(sub, request, fault) ==
    LET user == UserBySub(sub)
        db_plant == [id |-> NewPlantId,
                     user_id |-> user.id,
                     name |-> request.plant_name,
                     species |-> request.species,
                     current_health_score |-> HealthOr(request.health_score),
                     plant_icon |-> Or(request.plant_icon, "seedling"),
                     streak_days |-> 1,
                     last_check_in |-> today,
                     location |-> None,
                     care_notes |-> None,
                     updated_at |-> NoneNum]
        plant_scan == [user_id |-> user.id,
                       plant_id |-> NewPlantId,
                       scan_date |-> today,
                       health_score |-> HealthOr(request.health_score),
                       care_notes |-> request.care_notes,
                       disease_detected |-> request.disease_detected,
                       is_healthy |-> IF request.is_healthy # None
                                      THEN request.is_healthy = "True" ELSE TRUE]
        with_scan == Truthy(request.care_notes) \/ request.disease_detected # None
    IN  IF ~Found(user)
        THEN /\ resp' = NotFoundUser("POST /plants/add-to-garden", sub, request)
             /\ UNCHANGED <<jwks_cache, inflight,
                            today, users, plants, scans, catalog, uas, coupons>>
        ELSE IF fault = "commit"
        THEN /\ resp' = Response("POST /plants/add-to-garden", sub, request, 500,
                                 "Failed to add plant to garden. Please try again.",
                                 NoRow)
             /\ UNCHANGED <<jwks_cache, inflight,
                            today, users, plants, scans, catalog, uas, coupons>>
        ELSE /\ Len(plants) < MaxPlants
             /\ plants' = Append(plants, db_plant)
             /\ scans' = IF with_scan THEN Append(scans, plant_scan) ELSE scans
             /\ resp' = IF fault = "after_commit"
                        THEN Response("POST /plants/add-to-garden", sub, request, 500,
                                 "Failed to add plant to garden. Please try again.",
                                 NoRow)
                        ELSE Response("POST /plants/add-to-garden", sub, request,
                                      200, "", db_plant)
             /\ UNCHANGED <<jwks_cache, inflight, today, users, catalog, uas, coupons>>

\* The partial bodies of PUT /plants/{id}: only the fields sent are set.
PlantUpdates ==
    { [name |-> "Rose", location |-> Unset, care_notes |-> Unset,
       current_health_score |-> UnsetNum],
      [name |-> Unset, location |-> "Indoor", care_notes |-> "dry",
       current_health_score |-> 50] }

\* for field, value in plant_update.dict(exclude_unset=True).items(): setattr(...)
ApplyUpdate(plant, upd) ==
    [plant EXCEPT
        !.name = IF upd.name # Unset THEN upd.name ELSE @,
        !.location = IF upd.location # Unset THEN upd.location ELSE @,
        !.care_notes = IF upd.care_notes # Unset THEN upd.care_notes ELSE @,
        !.current_health_score =
            IF upd.current_health_score # UnsetNum THEN upd.current_health_score ELSE @,
        !.updated_at = today]

\* db.query(Plant).filter(Plant.id == plant_id).first()
PlantById(plant_id) ==
    First(plants, {i \in 1..Len(plants) : plants[i].id = plant_id})

\* Mutant of OwnedPlant: the lookup forgets the ownership filter.
OwnedPlantAnyOwner(plant_id, user_id) ==
    First(plants, {i \in 1..Len(plants) : plants[i].id = plant_id})

\* db.query(Plant).filter(Plant.id == plant_id, Plant.user_id == user.id).first()
OwnedPlant(plant_id, user_id) ==
    First(plants, {i \in 1..Len(plants) :
                      plants[i].id = plant_id /\ plants[i].user_id = user_id})

\* The table with the row of that primary key replaced / removed.
ReplaceById(table, row) ==
    [i \in 1..Len(table) |-> IF table[i].id = row.id THEN row ELSE table[i]]

DeleteById(table, id) == SelectSeq(table, LAMBDA r : r.id # id)

\* PUT /api/v1/plants/{plant_id}
update_plant(sub, plant_id, plant_update) ==
    LET user == UserBySub(sub)
        req == [plant_id |-> plant_id, update |-> plant_update]
        plant == OwnedPlant(plant_id, user.id)
    IN  /\ IF ~Found(user)
           THEN /\ resp' = NotFoundUser("PUT /plants", sub, req)
                /\ plants' = plants
           ELSE IF ~Found(plant)
           THEN /\ resp' = Response("PUT /plants", sub, req, 404,
                    "Plant not found or you don't have permission to edit it", NoRow)
                /\ plants' = plants
           ELSE /\ plants' = ReplaceById(plants, ApplyUpdate(plant, plant_update))
                /\ resp' = Response("PUT /plants", sub, req, 200, "",
                                    ApplyUpdate(plant, plant_update))
        /\ UNCHANGED <<jwks_cache, inflight,
                       today, users, scans, catalog, uas, coupons>>

\* DELETE /api/v1/plants/{plant_id}
delete_plant(sub, plant_id, fault) ==
    LET user == UserBySub(sub)
        req == [plant_id |-> plant_id]
        plant_exists == PlantById(plant_id)
        plant == OwnedPlant(plant_id, user.id)
    IN  /\ IF ~Found(user)
           THEN /\ resp' = NotFoundUser("DELETE /plants", sub, req)
                /\ UNCHANGED <<plants, scans>>
           ELSE IF ~Found(plant_exists)
           THEN /\ resp' = Response("DELETE /plants", sub, req, 404,
                        "Plant with ID " \o ToString(plant_id) \o " not found", NoRow)
                /\ UNCHANGED <<plants, scans>>
           ELSE IF ~Found(plant)
           THEN /\ resp' = Response("DELETE /plants", sub, req, 404,
                    "Plant not found or you don't have permission to delete it", NoRow)
                /\ UNCHANGED <<plants, scans>>
           ELSE IF fault = "commit"
           THEN /\ resp' = Response("DELETE /plants", sub, req, 500,
                                    "Failed to delete plant. Please try again.", NoRow)
                /\ UNCHANGED <<plants, scans>>
           ELSE /\ scans' = SelectSeq(scans, LAMBDA sc : sc.plant_id # plant.id)
                /\ plants' = DeleteById(plants, plant.id)
                /\ resp' = IF fault = "after_commit"
                           THEN Response("DELETE /plants", sub, req, 500,
                                    "Failed to delete plant. Please try again.", NoRow)
                           ELSE Response("DELETE /plants", sub, req, 200, "",
                                         [id |-> plant_id, success |-> TRUE])
        /\ UNCHANGED <<jwks_cache, inflight, today, users, catalog, uas, coupons>>

\* Both subjects have called GET /users/me once: each has its User row.
Registered ==
    <<[id |-> 1, cognito_user_id |-> "sub-a", email |-> "a@x", name |-> "Plant Lover"],
      [id |-> 2, cognito_user_id |-> "sub-b", email |-> "b@x", name |-> "Plant Lover"]>>

InitPlants ==
    /\ today = 0
    /\ jwks_cache = NotFetched
    /\ inflight = <<>>
    /\ users = Registered
    /\ plants = <<>>
    /\ scans = <<>>
    /\ catalog = <<>>
    /\ uas = <<>>
    /\ coupons = <<>>
    /\ resp = NoResp

NextPlants ==
    \/ \E sub \in Subjects, request \in AddRequests :
           add_to_garden(sub, request, "none")
    \/ \E sub \in Subjects, id \in PlantIds, upd \in PlantUpdates :
           update_plant(sub, id, upd)
    \/ \E sub \in Subjects, id \in PlantIds : delete_plant(sub, id, "none")

SpecPlants == InitPlants /\ [][NextPlants]_vars

-----------------------------------------------------------------------------
(* The care streak (achievements router). *)

\* sorted(set(...), reverse=True)
RECURSIVE SortedDesc(_)
SortedDesc(S) ==
    IF S = {} THEN <<>>
    ELSE LET m == CHOOSE x \in S : \A y \in S : y <= x
         IN  <<m>> \o SortedDesc(S \ {m})

\* scan.scan_date.date() of every PlantScan row of the user
ScanDatesOf(table, user_id) ==
    {table[i].scan_date : i \in {k \in 1..Len(table) : table[k].user_id = user_id}}

\* The dates of the user's rows from day d down to day 0, one entry per row.
RECURSIVE DatesPerRow(_, _, _)
DatesPerRow(table, user_id, d) ==
    IF d < 0 THEN <<>>
    ELSE [i \in 1..Cardinality({k \in 1..Len(table) :
                 table[k].user_id = user_id /\ table[k].scan_date = d}) |-> d]
         \o DatesPerRow(table, user_id, d - 1)

\* Mutant of ScanDateList: the dates are sorted without set(), so a day with
\* two scans appears twice.
ScanDateListNoSet(table, user_id) == DatesPerRow(table, user_id, today)

\* scan_dates = sorted(set(scan.scan_date.date() for scan in scans), reverse=True)
ScanDateList(table, user_id) == SortedDesc(ScanDatesOf(table, user_id))

\* for scan_date in scan_dates:
\*     if scan_date == current_date or (current_date - scan_date).days == streak:
\*         streak += 1
\*     else: break
RECURSIVE StreakWalk(_, _, _)
StreakWalk(scan_dates, current_date, streak) ==
    IF scan_dates = <<>> THEN streak
    ELSE IF Head(scan_dates) = current_date \/ current_date - Head(scan_dates) = streak
         THEN StreakWalk(Tail(scan_dates), current_date, streak + 1)
         ELSE streak

\* achievements.calculate_user_streak, reading the plant_scans table as given.
calculate_user_streak(table, user_id) ==
    LET current_date == today
        scan_dates == ScanDateList(table, user_id)
    IN  IF scan_dates = <<>> THEN 0
        ELSE IF current_date - scan_dates[1] > 1 THEN 0
        ELSE StreakWalk(scan_dates, current_date, 0)

\* GET /api/v1/achievements/user/streak
get_current_streak(sub) ==
    LET user == UserBySub(sub)
    IN  /\ IF ~Found(user)
           THEN resp' = NotFoundUser("GET /achievements/user/streak", sub, NoRow)
           ELSE resp' = Response("GET /achievements/user/streak", sub, NoRow, 200, "",
                                 [id |-> user.id,
                                  current_streak |-> calculate_user_streak(scans, user.id)])
        /\ UNCHANGED <<jwks_cache, inflight,
                       today, users, plants, scans, catalog, uas, coupons>>

\* Midnight (UTC) passes; the model stops the clock at day last_day.
Tick(last_day) ==
    /\ today < last_day
    /\ today' = today + 1
    /\ resp' = NoResp
    /\ UNCHANGED <<jwks_cache, inflight, users, plants, scans, catalog, uas, coupons>>

\* A PlantScan row as scan_plant stores it for a rescan of the user's plant.
ScanRow(user_id, plant_id, date) ==
    [user_id |-> user_id, plant_id |-> plant_id, scan_date |-> date,
     health_score |-> 100, care_notes |-> "water weekly",
     disease_detected |-> None, is_healthy |-> TRUE]

\* The date-ordered table holding cnt[d] scans of a user's plant on each day d.
RECURSIVE ScanRows(_, _, _, _)
ScanRows(user_id, plant_id, cnt, d) ==
    IF d \notin DOMAIN cnt THEN <<>>
    ELSE [i \in 1..cnt[d] |-> ScanRow(user_id, plant_id, d)]
         \o ScanRows(user_id, plant_id, cnt, d + 1)

\* Each user's garden holds one plant added without scan data.
BarePlant(id, user_id) ==
    [id |-> id, user_id |-> user_id, name |-> "Fern", species |-> "Nephrolepis",
     current_health_score |-> 100, plant_icon |-> "seedling", streak_days |-> 1,
     last_check_in |-> 0, location |-> None, care_notes |-> None,
     updated_at |-> NoneNum]

\* The scan histories of the first user: any number (up to MaxPerDay) of scans
\* on each day up to today; the second user scanned once, on day 0.
InitStreak ==
    /\ today \in 0..MaxDay
    /\ jwks_cache = NotFetched
    /\ inflight = <<>>
    /\ users = Registered
    /\ plants = <<BarePlant(1, 1), BarePlant(2, 2)>>
    /\ \E cnt \in [0..today -> 0..MaxPerDay] :
           scans = ScanRows(1, 1, cnt, 0) \o <<ScanRow(2, 2, 0)>>
    /\ catalog = <<>>
    /\ uas = <<>>
    /\ coupons = <<>>
    /\ resp = NoResp

NextStreak ==
    \/ \E sub \in Subjects : get_current_streak(sub)
    \/ Tick(MaxDay)

SpecStreak == InitStreak /\ [][NextStreak]_vars

-----------------------------------------------------------------------------
(* The achievement engine (achievements router, admin router, scan router). *)

AchievementTypes == {"streak", "scans_count", "plants_count"}

\* A catalog as a deployment or a test fixture seeds it: two scan-count
\* badges, one streak badge and a retired (inactive) streak badge.
SeededCatalog ==
    <<[id |-> "first-scan", achievement_type |-> "scans_count",
       requirement_value |-> 1, points_awarded |-> 10, is_active |-> TRUE],
      [id |-> "two-day-streak", achievement_type |-> "streak",
       requirement_value |-> 2, points_awarded |-> 25, is_active |-> TRUE],
      [id |-> "second-scan", achievement_type |-> "scans_count",
       requirement_value |-> 2, points_awarded |-> 75, is_active |-> TRUE],
      [id |-> "retired", achievement_type |-> "streak",
       requirement_value |-> 1, points_awarded |-> 10, is_active |-> FALSE]>>

\* db.query(Achievement).filter(Achievement.is_active == True).all()
ActiveAchievements == SelectSeq(catalog, LAMBDA a : a.is_active)

\* ... .filter(Achievement.achievement_type == t, Achievement.is_active == True).all()
ActiveOfType(achievement_type) ==
    SelectSeq(catalog, LAMBDA a : a.is_active /\ a.achievement_type = achievement_type)

\* The positions matched by
\* db.query(UserAchievement).filter(user_id == ..., achievement_id == ...)
UserAchievementAt(rows, user_id, achievement_id) ==
    {i \in 1..Len(rows) :
        rows[i].user_id = user_id /\ rows[i].achievement_id = achievement_id}

\* Mutant of NotExisting: the duplicate check is dropped.
NotExistingAlways(existing) == TRUE

\* if not existing:
NotExisting(existing) == existing = {}

\* models.UserAchievement(user_id, achievement_id, current_progress=0, is_completed=False)
NewUserAchievement(user_id, achievement_id) ==
    [user_id |-> user_id, achievement_id |-> achievement_id,
     current_progress |-> 0, is_completed |-> FALSE, completed_at |-> NoneNum]

\* for achievement in achievements: (the body of initialize_user_achievements)
RECURSIVE InitLoop(_, _, _)
InitLoop(achievements, rows, user_id) ==
    IF achievements = <<>> THEN rows
    ELSE LET achievement == Head(achievements)
             existing == UserAchievementAt(rows, user_id, achievement.id)
         IN  InitLoop(Tail(achievements),
                      IF NotExisting(existing)
                      THEN Append(rows, NewUserAchievement(user_id, achievement.id))
                      ELSE rows,
                      user_id)

\* achievements.initialize_user_achievements: the table it commits.
initialize_user_achievements(rows, user_id) ==
    IF ActiveAchievements = <<>> THEN rows
    ELSE InitLoop(ActiveAchievements, rows, user_id)

\* Mutant of AlreadyCompleted: completed rows are evaluated again.
AlreadyCompletedNever(user_achievement) == FALSE

\* if user_achievement.is_completed: continue
AlreadyCompleted(user_achievement) == user_achievement.is_completed

\* Mutant of Progressed: the stored progress only ever goes up.
ProgressedUpOnly(user_achievement, achievement, new_value) ==
    LET kept == Max(user_achievement.current_progress, new_value)
    IN  IF new_value >= achievement.requirement_value
        THEN [user_achievement EXCEPT !.current_progress = kept,
                                      !.is_completed = TRUE, !.completed_at = today]
        ELSE [user_achievement EXCEPT !.current_progress = kept]

\* Mutant of Meets: the threshold must be exceeded.
MeetsStrictly(new_value, requirement_value) == new_value > requirement_value

\* if new_value >= achievement.requirement_value:
Meets(new_value, requirement_value) == new_value >= requirement_value

\* user_achievement.current_progress = new_value, and the completion check
Progressed(user_achievement, achievement, new_value) ==
    IF Meets(new_value, achievement.requirement_value)
    THEN [user_achievement EXCEPT !.current_progress = new_value,
                                  !.is_completed = TRUE, !.completed_at = today]
    ELSE [user_achievement EXCEPT !.current_progress = new_value]

\* for achievement in achievements: (the body of update_achievement_progress)
RECURSIVE ProgressLoop(_, _, _, _, _)
ProgressLoop(achievements, rows, newly_completed, user_id, new_value) ==
    IF achievements = <<>>
    THEN [rows |-> rows, newly_completed |-> newly_completed]
    ELSE LET achievement == Head(achievements)
             at == UserAchievementAt(rows, user_id, achievement.id)
         IN  IF at = {} \/ AlreadyCompleted(rows[Min(at)])
             THEN ProgressLoop(Tail(achievements), rows, newly_completed,
                               user_id, new_value)
             ELSE LET upd == Progressed(rows[Min(at)], achievement, new_value)
                  IN  ProgressLoop(Tail(achievements),
                                   [rows EXCEPT ![Min(at)] = upd],
                                   IF upd.is_completed
                                   THEN Append(newly_completed, upd.achievement_id)
                                   ELSE newly_completed,
                                   user_id, new_value)

\* achievements.update_achievement_progress: the table it commits and the list
\* it returns. With no active achievement of the type it raises inside its own
\* try, rolls back and returns [].
update_achievement_progress(rows, user_id, achievement_type, new_value) ==
    IF ActiveOfType(achievement_type) = <<>>
    THEN [rows |-> rows, newly_completed |-> <<>>]
    ELSE ProgressLoop(ActiveOfType(achievement_type), rows, <<>>, user_id, new_value)

\* A direct call of initialize_user_achievements(user.id, db).
InitializeCall(user_id) ==
    /\ uas' = initialize_user_achievements(uas, user_id)
    /\ resp' = Response("initialize_user_achievements", None,
                        [user_id |-> user_id], 0, "", NoRow)
    /\ UNCHANGED <<jwks_cache, inflight, today, users, plants, scans, catalog, coupons>>

\* POST /api/v1/admin/initialize-user-achievements
initialize_user_achievements_endpoint(sub) ==
    LET user == UserBySub(sub)
        op == "POST /admin/initialize-user-achievements"
        existing_user_achievements ==
            Cardinality({i \in 1..Len(uas) : uas[i].user_id = user.id})
    IN  /\ IF ~Found(user)
           THEN /\ resp' = NotFoundUser(op, sub, NoRow)
                /\ uas' = uas
           ELSE IF Len(ActiveAchievements) = 0
           THEN /\ resp' = Response(op, sub, NoRow, 200, "",
                                    [id |-> user.id, success |-> FALSE, count |-> 0])
                /\ uas' = uas
           ELSE IF existing_user_achievements > 0
           THEN /\ resp' = Response(op, sub, NoRow, 200, "",
                                    [id |-> user.id, success |-> TRUE,
                                     count |-> existing_user_achievements])
                /\ uas' = uas
           ELSE /\ uas' = initialize_user_achievements(uas, user.id)
                /\ resp' = Response(op, sub, NoRow, 200, "",
                       [id |-> user.id, success |-> TRUE,
                        count |-> Cardinality({i \in 1..Len(uas') :
                                                  uas'[i].user_id = user.id})])
        /\ UNCHANGED <<jwks_cache, inflight,
                       today, users, plants, scans, catalog, coupons>>

\* A direct call of update_achievement_progress(user_id, type, new_value, db).
UpdateCall(user_id, achievement_type, new_value) ==
    LET r == update_achievement_progress(uas, user_id, achievement_type, new_value)
    IN  /\ uas' = r.rows
        /\ resp' = Response("update_achievement_progress", None,
                            [user_id |-> user_id, achievement_type |-> achievement_type,
                             new_value |-> new_value],
                            0, "", [id |-> user_id, newly_completed |-> r.newly_completed])
        /\ UNCHANGED <<jwks_cache, inflight,
                       today, users, plants, scans, catalog, coupons>>

\* POST /api/v1/achievements/user/check-streaks
check_and_update_streaks(sub) ==
    LET user == UserBySub(sub)
        op == "POST /achievements/user/check-streaks"
        current_streak == calculate_user_streak(scans, user.id)
        r == update_achievement_progress(uas, user.id, "streak", current_streak)
    IN  /\ IF ~Found(user)
           THEN /\ resp' = NotFoundUser(op, sub, NoRow)
                /\ uas' = uas
           ELSE /\ uas' = r.rows
                /\ resp' = Response(op, sub,
                                    [user_id |-> user.id, achievement_type |-> "streak",
                                     new_value |-> current_streak],
                                    200, "",
                                    [id |-> user.id, current_streak |-> current_streak,
                                     newly_completed |-> r.newly_completed])
        /\ UNCHANGED <<jwks_cache, inflight,
                       today, users, plants, scans, catalog, coupons>>

-----------------------------------------------------------------------------
(* The scan endpoint: analysis, persistence and the streak / achievement phase. *)

\* plant_id absent from the form: a species-identification scan.
NoPlantId == 0

\* A label of the disease classifier is kept as the words of
\* label.lower().replace('_', ' '), e.g. "Tomato_with_Late_blight" as
\* <<"tomato", "with", "late", "blight">>.
Words ==
    {"healthy", "unhealthy", "plant", "tomato", "carrot", "leaf", "with",
     "late", "blight", "rust"}

\* str.title() of one word
Title(word) ==
    CASE word = "healthy" -> "Healthy"
      [] word = "unhealthy" -> "Unhealthy"
      [] word = "plant" -> "Plant"
      [] word = "tomato" -> "Tomato"
      [] word = "carrot" -> "Carrot"
      [] word = "leaf" -> "Leaf"
      [] word = "with" -> "With"
      [] word = "late" -> "Late"
      [] word = "blight" -> "Blight"
      [] word = "rust" -> "Rust"

\* ' '.join(words) of title-cased words: the text of formatted_label
RECURSIVE Formatted(_)
Formatted(words) ==
    IF words = <<>> THEN ""
    ELSE IF Len(words) = 1 THEN Title(words[1])
    ELSE Title(words[1]) \o " " \o Formatted(Tail(words))

\* Prediction lists the classifier answers with (scores in percent).
HealthyPredictions ==
    <<[label |-> <<"healthy", "tomato", "plant">>, score |-> 80],
      [label |-> <<"tomato", "with", "late", "blight">>, score |-> 20]>>

SickPredictions ==
    <<[label |-> <<"healthy", "tomato", "plant">>, score |-> 20],
      [label |-> <<"tomato", "with", "late", "blight">>, score |-> 80]>>

\* The JSON a disease call answers with when it does not raise: a list of
\* predictions, an empty list, or an object such as {"error": ...}.
HfList(items) == [kind |-> "list", items |-> items]
HfDict == [kind |-> "dict", items |-> <<>>]

\* if not hf_response or not isinstance(hf_response, list): raise HTTPException(500)
InvalidHfResponse(hf_response) ==
    hf_response.kind # "list" \/ hf_response.items = <<>>

\* max(hf_response, key=lambda x: x.get('score', 0)): the first of the maxima
TopPrediction(items) ==
    items[Min({i \in 1..Len(items) :
                  \A j \in 1..Len(items) : items[j].score <= items[i].score})]

\* Mutant of HealthyIn: only the whole word counts.
HealthyWordIn(label) == \E i \in 1..Len(label) : label[i] = "healthy"

\* 'healthy' in label: a substring test, so "unhealthy" matches too
HealthyIn(label) == \E i \in 1..Len(label) : label[i] \in {"healthy", "unhealthy"}

\* The positions of ' With ' in formatted_label: the word between two others.
WithAt(label) == {i \in 2..(Len(label) - 1) : label[i] = "with"}

\* formatted_label.split(' With ', 1)[1] if ' With ' in formatted_label
\* else formatted_label
DiseaseOf(label) ==
    IF WithAt(label) # {}
    THEN Formatted(SubSeq(label, Min(WithAt(label)) + 1, Len(label)))
    ELSE Formatted(label)

\* The words the rescan parser keeps of a label without ' With ':
\* for word in words: (disease_words)
RECURSIVE DiseaseWords(_, _)
DiseaseWords(words, found_disease_term) ==
    IF words = <<>> THEN <<>>
    ELSE IF Head(words) \in {"blight", "rust"}
    THEN <<Head(words)>> \o DiseaseWords(Tail(words), TRUE)
    ELSE IF found_disease_term \/ Head(words) = "late"
    THEN <<Head(words)>> \o DiseaseWords(Tail(words), found_disease_term)
    ELSE DiseaseWords(Tail(words), found_disease_term)

\* any(word in formatted_label.lower() for word in ['spot', 'rot', 'blight',
\* ...]): a substring test, so "carrot" matches 'rot'
DiseaseTermIn(label) ==
    \E i \in 1..Len(label) : label[i] \in {"blight", "rust", "carrot"}

\* The disease name of the rescan parser.
RescanDiseaseOf(label) ==
    IF WithAt(label) # {}
    THEN Formatted(SubSeq(label, Min(WithAt(label)) + 1, Len(label)))
    ELSE IF Len(label) >= 2 /\ DiseaseTermIn(label)
              /\ DiseaseWords(label, FALSE) # <<>>
    THEN Formatted(DiseaseWords(label, FALSE))
    ELSE Formatted(label)

\* health_score = max(20.0, (1 - confidence) * 100)
NewPlantHealth(confidence) == Max(20, 100 - confidence)

\* Mutant of RescanHealth: the formula of the new-plant parser.
RescanHealthAsNew(confidence) == Max(20, 100 - confidence)

\* health_score = max(30.0, 85.0 - (confidence * 55.0))
RescanHealth(confidence) == Max(30, 85 - ((confidence * 55) \div 100))

\* Mutant of JoinSemicolon: only the first recommendation is kept.
FirstOnly(recs) == IF recs = <<>> THEN "" ELSE recs[1]

\* "; ".join(care_recommendations)
RECURSIVE JoinSemicolon(_)
JoinSemicolon(recs) ==
    IF recs = <<>> THEN ""
    ELSE IF Len(recs) = 1 THEN recs[1]
    ELSE recs[1] \o "; " \o JoinSemicolon(Tail(recs))

\* schemas.ScanResult(...)
ScanResult(species, confidence, is_healthy, disease, health_score, recs) ==
    [species |-> species, confidence |-> confidence, is_healthy |-> is_healthy,
     disease |-> disease, health_score |-> health_score,
     care_recommendations |-> recs]

\* The result served when HF_TOKEN is not configured: the known species with
\* certainty for a rescan, a fixed species otherwise.
MockResult(existing_plant) ==
    ScanResult(IF Found(existing_plant) THEN existing_plant.species
               ELSE "Monstera deliciosa",
               IF Found(existing_plant) THEN 100 ELSE 85,
               TRUE, None, 92,
               <<"Provide bright, indirect light",
                 "Water when soil is dry to touch",
                 "Maintain high humidity (60-80%)",
                 "Fertilize monthly during growing season">>)

\* The result of a rescan whose disease call or parsing raised.
RescanFallback(species) ==
    ScanResult(species, 100, TRUE, None, 85,
               <<"Health analysis temporarily unavailable",
                 "Continue with regular care routine",
                 "Monitor plant visually for changes",
                 "Try scanning again in a few minutes">>)

\* The last-resort result of a new-plant scan whose disease calls all raised
\* (the file name carries no species hint).
LastResortResult ==
    ScanResult("Houseplant", 75, TRUE, None, 85,
               <<"Provide bright, indirect light",
                 "Water when top inch of soil is dry",
                 "Maintain moderate humidity (40-60%)",
                 "Monitor for pests and diseases regularly",
                 "AI analysis temporarily unavailable - manual inspection recommended">>)

\* The result the outermost handler returns for an exception that is not an
\* HTTPException.
GenericFallback ==
    ScanResult("Unknown Plant", 30, TRUE, None, 70,
               <<"Unable to analyze plant image at this time",
                 "Ensure image is clear and well-lit",
                 "Try taking photo from different angle",
                 "Check that plant is main subject in image",
                 "Manual inspection recommended">>)

\* The care recommendations of a diseased rescan: the LLM's, the generic ones
\* of get_care_recommendations on a client error, or the parser's own when
\* the call raised.
RescanSickRecs(llm, species, disease) ==
    IF llm = "ok" THEN <<"Remove affected leaves.", "Water at the base.">>
    ELSE IF llm = "client_error"
    THEN <<"Ensure proper watering - soil should be moist but not waterlogged",
           "Monitor for pests and diseases regularly and treat promptly">>
    ELSE <<"Your " \o species \o " shows signs of " \o disease,
           "Isolate from other plants if possible",
           "Adjust watering frequency",
           "Consider consulting plant care resources">>

\* parse_disease_predictions_for_rescan_async, for a valid response
parse_disease_predictions_for_rescan_async(items, known_species, llm) ==
    LET best_prediction == TopPrediction(items)
        confidence == best_prediction.score
    IN  IF ~HealthyIn(best_prediction.label) /\ confidence > 50
        THEN ScanResult(known_species, 100, FALSE,
                        RescanDiseaseOf(best_prediction.label),
                        RescanHealth(confidence),
                        RescanSickRecs(llm, known_species,
                                       RescanDiseaseOf(best_prediction.label)))
        ELSE ScanResult(known_species, 100, TRUE, None, 100,
                        <<"Continue current care routine",
                          "Monitor regularly for any changes",
                          "Maintain proper watering and light conditions">>)

\* formatted_healthy.replace('Healthy ', ''): the word is dropped where
\* another word follows it
RECURSIVE DropHealthy(_)
DropHealthy(words) ==
    IF Len(words) <= 1 THEN words
    ELSE (IF Head(words) = "healthy" THEN <<>> ELSE <<Head(words)>>)
         \o DropHealthy(Tail(words))

\* .replace(' Plant', ''): the word is dropped where another word precedes it
DropPlant(words) ==
    IF words = <<>> THEN <<>>
    ELSE <<Head(words)>> \o SelectSeq(Tail(words), LAMBDA w : w # "plant")

\* for prediction in hf_response: (the species read off the labels when the
\* PlantNet call raised): "Healthy <Host> Plant" without 'Healthy ' and
\* ' Plant', or the part before ' With '; the first label that gives one.
RECURSIVE SpeciesFromLabels(_)
SpeciesFromLabels(items) ==
    IF items = <<>> THEN "Unknown Plant Species"
    ELSE LET label == Head(items).label
         IN  IF HealthyIn(label)
             THEN IF (\E i \in 1..Len(label) : label[i] = "healthy")
                     /\ (\E i \in 1..Len(label) : label[i] = "plant")
                  THEN Formatted(DropPlant(DropHealthy(label)))
                  ELSE SpeciesFromLabels(Tail(items))
             ELSE IF WithAt(label) # {}
             THEN Formatted(SubSeq(label, 1, Min(WithAt(label)) - 1))
             ELSE SpeciesFromLabels(Tail(items))

\* The species of a new-plant scan: PlantNet's first common name, or when the
\* PlantNet call raised the one read off the labels.
SpeciesOf(items, plantnet) ==
    IF plantnet = "ok" THEN "Tomato" ELSE SpeciesFromLabels(items)

\* parse_disease_predictions_async, for a valid response
parse_disease_predictions_async(items, plantnet) ==
    LET top_prediction == TopPrediction(items)
        confidence == top_prediction.score
        has_disease == ~HealthyIn(top_prediction.label) /\ confidence > 50
    IN  IF ~has_disease
        THEN ScanResult(SpeciesOf(items, plantnet), confidence, TRUE, None, 100,
                        <<"Continue current care routine",
                          "Monitor regularly for any changes",
                          "Maintain proper watering and light conditions">>)
        ELSE ScanResult(SpeciesOf(items, plantnet), confidence, FALSE,
                        DiseaseOf(top_prediction.label),
                        NewPlantHealth(confidence),
                        <<"Treatment recommended for " \o DiseaseOf(top_prediction.label),
                          "Isolate plant to prevent spread",
                          "Consult plant care specialist",
                          "Adjust watering and humidity levels">>)

\* What surrounds one scan request: the upload, the configuration, how each
\* provider call ends (hf, hf_retry: "raise" or the JSON answered), and which
\* database calls raise (persist: the PlantScan commit; engine: the count
\* query of the achievement phase, alone or with every later query).
FairWeather ==
    [image |-> "image", hf_token |-> TRUE, plantnet |-> "ok",
     hf |-> "list", hf_retry |-> "list", predictions |-> HealthyPredictions,
     llm |-> "ok", persist |-> "none", engine |-> "none"]

HfOutcomes == {"list", "raise", "dict", "empty"}

ScanWorlds ==
    {FairWeather}
    \cup {[FairWeather EXCEPT !.image = v] : v \in {"text", "too_large"}}
    \cup {[FairWeather EXCEPT !.hf_token = FALSE]}
    \cup {[FairWeather EXCEPT !.plantnet = p, !.predictions = SickPredictions,
                              !.llm = l] :
             p \in {"ok", "raise"}, l \in {"ok", "client_error", "raise"}}
    \cup {[FairWeather EXCEPT !.plantnet = p, !.hf = h, !.hf_retry = r] :
             p \in {"ok", "raise"}, h \in HfOutcomes \ {"list"}, r \in HfOutcomes}
    \cup {[FairWeather EXCEPT !.persist = "raise", !.predictions = q] :
             q \in {HealthyPredictions, SickPredictions}}
    \cup {[FairWeather EXCEPT !.engine = e, !.persist = p] :
             e \in {"count_query", "count_query_and_reload"}, p \in {"none", "raise"}}

\* The JSON of a disease call that did not raise.
HfResponse(outcome, predictions) ==
    IF outcome = "list" THEN HfList(predictions)
    ELSE IF outcome = "empty" THEN HfList(<<>>)
    ELSE HfDict

\* Mutant of BothDiseaseCallsRaised: the retry is not awaited.
FirstDiseaseCallRaised(w) == w.hf = "raise"

\* The concurrent disease call raised and so did the synchronous retry.
BothDiseaseCallsRaised(w) == w.hf = "raise" /\ w.hf_retry = "raise"

\* The analysis phase of scan_plant: the status it ends with and, for 200,
\* the ScanResult handed to the persistence phase.
Analyse(existing_plant, w) ==
    LET ok(result) == [status |-> 200, detail |-> "", result |-> result]
        invalid == [status |-> 500,
                    detail |-> "Invalid response from disease detection model",
                    result |-> GenericFallback]
    IN  IF ~w.hf_token
        THEN ok(MockResult(existing_plant))
        ELSE IF Found(existing_plant)
        THEN IF w.hf = "raise" \/ InvalidHfResponse(HfResponse(w.hf, w.predictions))
             THEN ok(RescanFallback(existing_plant.species))
             ELSE ok(parse_disease_predictions_for_rescan_async(
                         w.predictions, existing_plant.species, w.llm))
        ELSE IF BothDiseaseCallsRaised(w)
        THEN ok(LastResortResult)
        ELSE LET hf_response == HfResponse(IF w.hf = "raise" THEN w.hf_retry ELSE w.hf,
                                           w.predictions)
             IN  IF InvalidHfResponse(hf_response) THEN invalid
                 ELSE ok(parse_disease_predictions_async(hf_response.items, w.plantnet))

\* total_scans = count of the user's PlantScan rows; += 1 if not existing_plant
TotalScans(table, user_id, rescan) ==
    Cardinality({i \in 1..Len(table) : table[i].user_id = user_id})
        + (IF rescan THEN 0 ELSE 1)

\* Mutant of SavesScan: every scan is stored.
SavesScanAlways(plant_id) == TRUE

\* if plant_id: (save the scan results for an existing plant)
SavesScan(plant_id) == plant_id # NoPlantId

\* POST /api/v1/scan
scan_plant(sub, plant_id, w) ==
    LET user == UserBySub(sub)
        op == "POST /scan"
        req == [plant_id |-> plant_id, world |-> w]
        existing_plant == OwnedPlant(plant_id, user.id)
        rescan == plant_id # NoPlantId
        analysis == Analyse(IF rescan THEN existing_plant ELSE NoRow, w)
        scan_result == analysis.result
        plant_scan == [user_id |-> user.id, plant_id |-> plant_id,
                       scan_date |-> today,
                       health_score |-> scan_result.health_score,
                       care_notes |-> IF scan_result.care_recommendations # <<>>
                                      THEN JoinSemicolon(scan_result.care_recommendations)
                                      ELSE None,
                       disease_detected |-> scan_result.disease,
                       is_healthy |-> scan_result.is_healthy]
        persisted == SavesScan(plant_id) /\ w.persist = "none"
        saved == IF persisted THEN Append(scans, plant_scan) ELSE scans
        scanned == IF rescan /\ persisted
                   THEN [existing_plant EXCEPT
                            !.current_health_score = scan_result.health_score]
                   ELSE existing_plant
        current_streak == calculate_user_streak(saved, user.id)
        plant_after == [scanned EXCEPT !.streak_days = current_streak,
                                       !.last_check_in = today]
        streak_upd == update_achievement_progress(uas, user.id, "streak", current_streak)
        counted == w.engine = "none"
        total_scans == TotalScans(saved, user.id, rescan)
        scans_upd == update_achievement_progress(streak_upd.rows, user.id,
                                                 "scans_count", total_scans)
        \* the handler of a failed achievement phase prints plant_scan.id: unbound
        \* without a plant id, reloaded from the database after a commit
        returned == IF counted \/ (rescan /\ (w.engine = "count_query" \/ ~persisted))
                    THEN scan_result ELSE GenericFallback
    IN  IF ~Found(user)
        THEN /\ resp' = NotFoundUser(op, sub, req)
             /\ UNCHANGED <<jwks_cache, inflight,
                            today, users, plants, scans, catalog, uas, coupons>>
        ELSE IF rescan /\ ~Found(existing_plant)
        THEN /\ resp' = Response(op, sub, req, 404, "Plant not found", NoRow)
             /\ UNCHANGED <<jwks_cache, inflight,
                            today, users, plants, scans, catalog, uas, coupons>>
        ELSE IF w.image # "image"
        THEN /\ resp' = Response(op, sub, req, 400,
                                 IF w.image = "text" THEN "File must be an image"
                                 ELSE "Image file too large (max 10MB)", NoRow)
             /\ UNCHANGED <<jwks_cache, inflight,
                            today, users, plants, scans, catalog, uas, coupons>>
        ELSE IF analysis.status # 200
        THEN /\ resp' = Response(op, sub, req, analysis.status, analysis.detail, NoRow)
             /\ UNCHANGED <<jwks_cache, inflight,
                            today, users, plants, scans, catalog, uas, coupons>>
        ELSE /\ scans' = saved
             /\ plants' = IF rescan THEN ReplaceById(plants, plant_after) ELSE plants
             /\ uas' = IF counted THEN scans_upd.rows ELSE streak_upd.rows
             /\ resp' = Response(op, sub, req, 200, "",
                                 [id |-> user.id, result |-> returned,
                                  current_streak |-> current_streak,
                                  total_scans |-> IF counted THEN total_scans
                                                  ELSE NoneNum,
                                  newly_completed |->
                                      streak_upd.newly_completed
                                      \o (IF counted THEN scans_upd.newly_completed
                                          ELSE <<>>)])
             /\ UNCHANGED <<jwks_cache, inflight, today, users, catalog, coupons>>

-----------------------------------------------------------------------------
(* The achievement engine driven by direct calls, check-streaks and scans.
   The first user scans (its plant at most once a day, or a photo of no plant
   of the garden) and is the target of the updates; the second user's rows are
   the bystanders. *)

InitAch ==
    /\ today = 0
    /\ jwks_cache = NotFetched
    /\ inflight = <<>>
    /\ users = Registered
    /\ plants = <<BarePlant(1, 1), BarePlant(2, 2)>>
    /\ scans = <<>>
    /\ catalog \in {<<>>, SeededCatalog}
    /\ uas = <<>>
    /\ coupons = <<>>
    /\ resp = NoResp

NextAch ==
    \/ \E i \in 1..Len(users) : InitializeCall(users[i].id)
    \/ \E sub \in Subjects : initialize_user_achievements_endpoint(sub)
    \/ \E t \in AchievementTypes, v \in 0..MaxValue : UpdateCall(1, t, v)
    \/ \E sub \in Subjects : check_and_update_streaks(sub)
    \/ \E id \in {plants[i].id : i \in 1..Len(plants)} \cup {NoPlantId} :
           /\ id = NoPlantId \/ \A n \in 1..Len(scans) : scans[n].scan_date # today
           /\ scan_plant("sub-a", id, FairWeather)
    \/ Tick(GameDays)

SpecAch == InitAch /\ [][NextAch]_vars

-----------------------------------------------------------------------------
(* The storefront router: coin balance and coupon purchase. *)

\* Mutant of Floored: the remaining balance is not floored.
Unfloored(earned, spent) == earned - spent

\* remaining = max(0, earned - spent)
Floored(earned, spent) == Max(0, earned - spent)

\* UserAchievement rows of the user with is_completed == True, counted.
CompletedCount(user_id) ==
    Cardinality({i \in 1..Len(uas) : uas[i].user_id = user_id /\ uas[i].is_completed})

\* coalesce(sum(UserCoupon.cost_coins), 0) over the user's coupons
Spent(user_id) ==
    SeqSum([i \in 1..Len(coupons) |->
               IF coupons[i].user_id = user_id THEN coupons[i].cost_coins ELSE 0])

\* earned = 30 + (completed_achievements * 20) + (current_streak * 5), in the balance
BalanceEarned(completed_achievements, current_streak) ==
    30 + (completed_achievements * 20) + (current_streak * 5)

\* GET /api/v1/storefront/balance
get_coin_balance(sub) ==
    LET user == UserBySub(sub)
        op == "GET /storefront/balance"
        earned == BalanceEarned(CompletedCount(user.id),
                                calculate_user_streak(scans, user.id))
        spent == Spent(user.id)
        remaining == Floored(earned, spent)
    IN  /\ resp' = IF ~Found(user) THEN NotFoundUser(op, sub, NoRow)
                   ELSE Response(op, sub, NoRow, 200, "",
                                 [id |-> user.id, coins_earned |-> earned,
                                  coins_spent |-> spent, coins_remaining |-> remaining])
        /\ UNCHANGED <<jwks_cache, inflight,
                       today, users, plants, scans, catalog, uas, coupons>>

\* valid_tiers = {(5, 50), (10, 100), (20, 150)}
valid_tiers == {<<5, 50>>, <<10, 100>>, <<20, 150>>}

\* The purchase bodies tried: the three tiers, the pair (15, 75) and a pair
\* that joins one tier's discount to another tier's cost.
PurchaseRequests ==
    {[store_id |-> "s1", store_name |-> "Green Thumb",
      discount_percent |-> t[1], cost_coins |-> t[2]] :
        t \in valid_tiers \cup {<<15, 75>>, <<20, 50>>}}

\* generate_coupon_code(12): a random code, of which two are told apart.
CouponCodes == {"CODE-A", "CODE-B"}

\* earned = 30 + (completed_achievements * 20) + (current_streak * 5), in the purchase
PurchaseEarned(completed_achievements, current_streak) ==
    30 + (completed_achievements * 20) + (current_streak * 5)

\* Mutant of Insufficient: a balance equal to the cost is refused.
InsufficientOrEqual(remaining, cost_coins) == remaining <= cost_coins

\* if remaining < req.cost_coins:
Insufficient(remaining, cost_coins) == remaining < cost_coins

\* models.UserCoupon(user_id=..., ..., redeemed=False, expires_at=now + 30 days)
NewCoupon(user_id, req, code) ==
    [id |-> Len(coupons) + 1, user_id |-> user_id, store_id |-> req.store_id,
     store_name |-> req.store_name, discount_percent |-> req.discount_percent,
     cost_coins |-> req.cost_coins, code |-> code, redeemed |-> FALSE,
     expires_at |-> today + 30]

\* POST /api/v1/storefront/purchase
purchase_coupon(sub, req, code) ==
    LET user == UserBySub(sub)
        op == "POST /storefront/purchase"
        earned == PurchaseEarned(CompletedCount(user.id),
                                 calculate_user_streak(scans, user.id))
        spent == Spent(user.id)
        remaining == earned - spent
        coupon == NewCoupon(user.id, req, code)
    IN  IF ~Found(user)
        THEN /\ resp' = NotFoundUser(op, sub, req)
             /\ UNCHANGED <<jwks_cache, inflight,
                            today, users, plants, scans, catalog, uas, coupons>>
        ELSE IF <<req.discount_percent, req.cost_coins>> \notin valid_tiers
        THEN /\ resp' = Response(op, sub, req, 400, "Invalid coupon tier", NoRow)
             /\ UNCHANGED <<jwks_cache, inflight,
                            today, users, plants, scans, catalog, uas, coupons>>
        ELSE IF Insufficient(remaining, req.cost_coins)
        THEN /\ resp' = Response(op, sub, req, 200, "",
                                 [id |-> user.id, success |-> FALSE,
                                  message |-> "Insufficient coins", coupon |-> NoRow])
             /\ UNCHANGED <<jwks_cache, inflight,
                            today, users, plants, scans, catalog, uas, coupons>>
        ELSE /\ coupons' = Append(coupons, coupon)
             /\ resp' = Response(op, sub, req, 200, "",
                                 [id |-> user.id, success |-> TRUE,
                                  message |-> "Coupon purchased", coupon |-> coupon])
             /\ UNCHANGED <<jwks_cache, inflight,
                            today, users, plants, scans, catalog, uas>>

\* The rows of a user who was initialised and has completed the first k
\* active achievements of the catalog on day 0.
RowsWithCompleted(user_id, k) ==
    [n \in 1..Len(SelectSeq(SeededCatalog, LAMBDA a : a.is_active)) |->
        LET a == SelectSeq(SeededCatalog, LAMBDA b : b.is_active)[n]
        IN  IF n <= k
            THEN [user_id |-> user_id, achievement_id |-> a.id,
                  current_progress |-> a.requirement_value,
                  is_completed |-> TRUE, completed_at |-> 0]
            ELSE NewUserAchievement(user_id, a.id)]

\* One scan of the user's plant on each day of a set of days, in date order.
RECURSIVE ScansOn(_, _, _, _)
ScansOn(user_id, plant_id, days, d) ==
    IF d > MaxDay THEN <<>>
    ELSE (IF d \in days THEN <<ScanRow(user_id, plant_id, d)>> ELSE <<>>)
         \o ScansOn(user_id, plant_id, days, d + 1)

\* The first user has scanned on any set of days up to today and completed
\* any number of achievements; the second user scanned on day 0, completed
\* one achievement and spent the 50 coins it earned.
InitStore ==
    /\ today \in 0..MaxDay
    /\ jwks_cache = NotFetched
    /\ inflight = <<>>
    /\ users = Registered
    /\ plants = <<BarePlant(1, 1), BarePlant(2, 2)>>
    /\ \E days \in SUBSET (0..today) :
           scans = <<ScanRow(2, 2, 0)>> \o ScansOn(1, 1, days, 0)
    /\ catalog = SeededCatalog
    /\ \E k \in 0..3 : uas = RowsWithCompleted(2, 1) \o RowsWithCompleted(1, k)
    /\ coupons = <<[id |-> 1, user_id |-> 2, store_id |-> "s1",
                    store_name |-> "Green Thumb", discount_percent |-> 5,
                    cost_coins |-> 50, code |-> "CODE-A", redeemed |-> FALSE,
                    expires_at |-> 30]>>
    /\ resp = NoResp

\* Callers with a token: the two registered subjects and one that never registered.
StoreCallers == Subjects \cup {"sub-c"}

NextStore ==
    \/ \E sub \in StoreCallers : get_coin_balance(sub)
    \/ \E sub \in StoreCallers, req \in PurchaseRequests, code \in CouponCodes :
           purchase_coupon(sub, req, code)
    \/ Tick(MaxDay)

SpecStore == InitStore /\ [][NextStore]_vars

-----------------------------------------------------------------------------
(* The dashboard of the dashboard router. *)

\* The first n rows of a query result: .limit(n).all() and list[:n].
Limited(rows, n) == SubSeq(rows, 1, IF Len(rows) < n THEN Len(rows) ELSE n)

\* The user's UserAchievement rows with is_completed == True, .limit(5).all()
RecentAchievements(user_id) ==
    Limited(SelectSeq(uas, LAMBDA ua : ua.user_id = user_id /\ ua.is_completed), 5)

\* coins_earned = 30 + (len(user_achievements) * 20) + (current_streak * 5)
DashboardEarned(user_achievements, current_streak) ==
    30 + (Len(user_achievements) * 20) + (current_streak * 5)

\* schemas.DashboardPlant(...)
DashboardPlant(plant) ==
    [id |-> plant.id, name |-> plant.name, species |-> plant.species,
     health_score |-> plant.current_health_score,
     streak_days |-> plant.streak_days, last_check_in |-> plant.last_check_in,
     needs_attention |-> plant.current_health_score < 70]

\* GET /api/v1/dashboard
get_dashboard(sub) ==
    LET user == UserBySub(sub)
        op == "GET /dashboard"
        user_plants == SelectSeq(plants, LAMBDA p : p.user_id = user.id)
        total_plants == Len(user_plants)
        healthy_plants == Len(SelectSeq(user_plants,
                                        LAMBDA p : p.current_health_score >= 70))
        user_achievements == RecentAchievements(user.id)
        current_streak == calculate_user_streak(scans, user.id)
        stats == [total_plants |-> total_plants,
                  healthy_plants |-> healthy_plants,
                  plants_needing_care |-> total_plants - healthy_plants,
                  current_streak |-> current_streak,
                  total_scans |-> 0,
                  achievements_earned |-> Len(user_achievements),
                  coins_earned |-> DashboardEarned(user_achievements, current_streak)]
        shown == Limited(user_plants, 5)
    IN  /\ resp' = IF ~Found(user) THEN NotFoundUser(op, sub, NoRow)
                   ELSE Response(op, sub, NoRow, 200, "",
                                 [id |-> user.id, stats |-> stats,
                                  recent_plants |->
                                      [i \in 1..Len(shown) |-> DashboardPlant(shown[i])],
                                  recent_achievements |-> user_achievements])
        /\ UNCHANGED <<jwks_cache, inflight,
                       today, users, plants, scans, catalog, uas, coupons>>

\* A catalog as seed_achievements fills it, with the thresholds scaled down.
DashCatalog ==
    <<[id |-> "first-scan", achievement_type |-> "scans_count",
       requirement_value |-> 1, points_awarded |-> 10, is_active |-> TRUE],
      [id |-> "green-thumb", achievement_type |-> "plants_count",
       requirement_value |-> 1, points_awarded |-> 10, is_active |-> TRUE],
      [id |-> "plant-parent", achievement_type |-> "streak",
       requirement_value |-> 1, points_awarded |-> 25, is_active |-> TRUE],
      [id |-> "green-garden", achievement_type |-> "plants_count",
       requirement_value |-> 1, points_awarded |-> 50, is_active |-> TRUE],
      [id |-> "plant-expert", achievement_type |-> "streak",
       requirement_value |-> 1, points_awarded |-> 100, is_active |-> TRUE],
      [id |-> "scanner-pro", achievement_type |-> "scans_count",
       requirement_value |-> 1, points_awarded |-> 75, is_active |-> TRUE],
      [id |-> "jungle-master", achievement_type |-> "plants_count",
       requirement_value |-> 1, points_awarded |-> 150, is_active |-> TRUE]>>

\* The rows of an initialised user who has completed the first k achievements.
RECURSIVE DashRows(_, _, _)
DashRows(achievements, user_id, k) ==
    IF achievements = <<>> THEN <<>>
    ELSE <<IF k > 0
           THEN [NewUserAchievement(user_id, Head(achievements).id) EXCEPT
                    !.current_progress = Head(achievements).requirement_value,
                    !.is_completed = TRUE, !.completed_at = 0]
           ELSE NewUserAchievement(user_id, Head(achievements).id)>>
         \o DashRows(Tail(achievements), user_id, k - 1)

\* The first user has scanned on any set of days up to today and completed any
\* number of the achievements; the second user completed one.
InitDash ==
    /\ today \in 0..MaxDay
    /\ jwks_cache = NotFetched
    /\ inflight = <<>>
    /\ users = Registered
    /\ plants = <<BarePlant(1, 1), BarePlant(2, 2)>>
    /\ \E days \in SUBSET (0..today) : scans = ScansOn(1, 1, days, 0)
    /\ catalog = DashCatalog
    /\ \E k \in 0..Len(DashCatalog) :
           uas = DashRows(DashCatalog, 2, 1) \o DashRows(DashCatalog, 1, k)
    /\ coupons = <<>>
    /\ resp = NoResp

NextDash ==
    \/ \E sub \in StoreCallers : get_dashboard(sub)
    \/ \E sub \in StoreCallers : get_coin_balance(sub)
    \/ Tick(MaxDay)

SpecDash == InitDash /\ [][NextDash]_vars

-----------------------------------------------------------------------------
(* The leaderboard of the dashboard router. *)

MaxLimit == 3

\* total_score: points_awarded of the achievement of every completed
\* UserAchievement row of the user, + 5 per scan, + 10 per healthy scan.
total_score(user_id) ==
    SeqSum([i \in 1..Len(uas) |->
               IF uas[i].user_id = user_id /\ uas[i].is_completed
               THEN LET achievement ==
                            First(catalog, {k \in 1..Len(catalog) :
                                               catalog[k].id = uas[i].achievement_id})
                    IN  IF achievement = NoRow THEN 0 ELSE achievement.points_awarded
               ELSE 0])
    + 5 * Cardinality({i \in 1..Len(scans) : scans[i].user_id = user_id})
    + 10 * Cardinality({i \in 1..Len(scans) :
                           scans[i].user_id = user_id /\ scans[i].is_healthy})

\* schemas.LeaderboardEntry(rank=0, ...)
LeaderboardEntry(user) ==
    [rank |-> 0, user_id |-> user.id, name |-> user.name, email |-> user.email,
     score |-> total_score(user.id),
     total_plants |-> Cardinality({i \in 1..Len(plants) :
                                     plants[i].user_id = user.id}),
     achievements_completed |->
         Cardinality({i \in 1..Len(uas) :
                         uas[i].user_id = user.id /\ uas[i].is_completed})]

\* for user in all_users: ... leaderboard_entries.append(entry)
RECURSIVE EntriesOf(_)
EntriesOf(all_users) ==
    IF all_users = <<>> THEN <<>>
    ELSE <<LeaderboardEntry(Head(all_users))>> \o EntriesOf(Tail(all_users))

\* leaderboard_entries.sort(key=score, reverse=True): stable, equal scores
\* keep the order of the users query.
RECURSIVE SortByScore(_)
SortByScore(entries) ==
    IF entries = <<>> THEN <<>>
    ELSE LET k == Min({i \in 1..Len(entries) :
                          \A j \in 1..Len(entries) : entries[j].score <= entries[i].score})
         IN  <<entries[k]>>
             \o SortByScore(SubSeq(entries, 1, k - 1)
                            \o SubSeq(entries, k + 1, Len(entries)))

\* Mutant of RankAt: every entry is ranked by its position.
RankAtPosition(idx, score, previous_score, previous_rank) == idx + 1

\* The rank of the entry at (0-based) position idx: the previous entry's rank
\* if the score repeats, else idx + 1.
RankAt(idx, score, previous_score, previous_rank) ==
    IF score = previous_score THEN previous_rank ELSE idx + 1

\* for idx, entry in enumerate(leaderboard_entries): (rank assignment)
RECURSIVE AssignRanks(_, _, _, _)
AssignRanks(entries, idx, previous_score, previous_rank) ==
    IF entries = <<>> THEN <<>>
    ELSE LET entry == Head(entries)
             rank == RankAt(idx, entry.score, previous_score, previous_rank)
         IN  <<[entry EXCEPT !.rank = rank]>>
             \o AssignRanks(Tail(entries), idx + 1, entry.score, rank)

\* leaderboard_entries[:limit]
Slice(entries, limit) ==
    IF limit >= 0 THEN SubSeq(entries, 1, IF limit < Len(entries) THEN limit
                                          ELSE Len(entries))
    ELSE SubSeq(entries, 1, Len(entries) + limit)

\* The response of get_leaderboard for the ranked list of all users.
LeaderboardResponse(leaderboard_entries, current_user, limit) ==
    LET at == {i \in 1..Len(leaderboard_entries) :
                  leaderboard_entries[i].user_id = current_user.id}
        current_user_entry == First(leaderboard_entries, at)
        current_user_rank == IF Found(current_user) /\ at # {}
                             THEN current_user_entry.rank ELSE NoneNum
        limited_entries == Slice(leaderboard_entries, limit)
    IN  [leaderboard |->
             IF current_user_rank # NoneNum /\ current_user_rank > limit
             THEN Append(limited_entries, current_user_entry)
             ELSE limited_entries,
         current_user_rank |-> current_user_rank]

\* GET /api/v1/leaderboard?limit=N
\* (each list is bound once it is built: entries, sorted, ranked)
get_leaderboard(sub, limit) ==
    \E entries \in {EntriesOf(users)} :
    \E sorted \in {SortByScore(entries)} :
    \E leaderboard_entries \in {AssignRanks(sorted, 0, NoneNum, 0)} :
        /\ resp' = Response("GET /leaderboard", sub, [limit |-> limit], 200, "",
                            LeaderboardResponse(leaderboard_entries,
                                                UserBySub(sub), limit))
        /\ UNCHANGED <<jwks_cache, inflight,
                       today, users, plants, scans, catalog, uas, coupons>>

\* Three registered users, each with one plant, up to one diseased and one
\* healthy scan of it, and the first-scan achievement completed or not.
Contestants ==
    Registered
    \o <<[id |-> 3, cognito_user_id |-> "sub-c", email |-> "c@x", name |-> "Plant Lover"]>>

RECURSIVE Standing(_, _)
Standing(how, user_id) ==
    IF user_id > Len(Contestants) THEN [scans |-> <<>>, uas |-> <<>>]
    ELSE LET rest == Standing(how, user_id + 1)
             h == how[user_id]
         IN  [scans |->
                  [i \in 1..h.sick |->
                      [ScanRow(user_id, user_id, 0) EXCEPT
                          !.is_healthy = FALSE, !.health_score = 45,
                          !.disease_detected = "Late Blight"]]
                  \o [i \in 1..h.healthy |-> ScanRow(user_id, user_id, 0)]
                  \o rest.scans,
              uas |->
                  [k \in 1..Len(ActiveAchievements) |->
                      IF h.completed /\ ActiveAchievements[k].id = "first-scan"
                      THEN [NewUserAchievement(user_id, "first-scan") EXCEPT
                               !.current_progress = 1, !.is_completed = TRUE,
                               !.completed_at = 0]
                      ELSE NewUserAchievement(user_id, ActiveAchievements[k].id)]
                  \o rest.uas]

InitBoard ==
    /\ today = 0
    /\ jwks_cache = NotFetched
    /\ inflight = <<>>
    /\ users = Contestants
    /\ plants = [i \in 1..Len(Contestants) |-> BarePlant(i, i)]
    /\ catalog = SeededCatalog
    /\ \E how \in [1..Len(Contestants) ->
                     [sick : 0..1, healthy : 0..1, completed : BOOLEAN]] :
          /\ scans = Standing(how, 1).scans
          /\ uas = Standing(how, 1).uas
    /\ coupons = <<>>
    /\ resp = NoResp

BoardCallers == {Contestants[i].cognito_user_id : i \in 1..Len(Contestants)} \cup {"sub-d"}

NextBoard ==
    \E sub \in BoardCallers, limit \in -1..MaxLimit : get_leaderboard(sub, limit)

SpecBoard == InitBoard /\ [][NextBoard]_vars

-----------------------------------------------------------------------------
(* The two disease-prediction parsers applied to the same prediction list. *)

MaxPredictions == 2

\* Labels and scores (percent) of the predictions handed to the parsers.
ParseLabels ==
    {<<"healthy", "tomato", "plant">>,
     <<"tomato", "with", "late", "blight">>,
     <<"tomato", "late", "blight">>,
     <<"unhealthy", "leaf">>,
     <<"tomato", "with", "healthy", "leaf">>,
     <<"with", "rust">>,
     <<"carrot", "leaf">>,
     <<"leaf", "with", "rust", "with", "blight">>}

Scores == {50, 60, 80, 100}

PredictionLists ==
    UNION {[1..n -> [label : ParseLabels, score : Scores]] : n \in 1..MaxPredictions}

\* A non-empty prediction list has arrived for a plant of a known species.
InitParse ==
    /\ today = 0
    /\ jwks_cache = NotFetched
    /\ inflight = <<>>
    /\ users = Registered
    /\ plants = <<BarePlant(1, 1)>>
    /\ scans = <<>>
    /\ catalog = SeededCatalog
    /\ uas = <<>>
    /\ coupons = <<>>
    /\ \E hf_response \in PredictionLists :
           resp = Response("hf_response", None,
                           [hf_response |-> hf_response,
                            known_species |-> plants[1].species], 0, "", NoRow)

\* Both parsers read the list: the new-plant parser after a failed PlantNet
\* call, the rescan parser with the LLM answering.
ParsePredictions ==
    /\ resp.op = "hf_response"
    /\ resp' = Response("parsed", None, resp.req, 200, "",
                        [new_plant |->
                             parse_disease_predictions_async(resp.req.hf_response,
                                                             "raise"),
                         rescan |->
                             parse_disease_predictions_for_rescan_async(
                                 resp.req.hf_response, resp.req.known_species, "ok")])
    /\ UNCHANGED <<jwks_cache, inflight,
                   today, users, plants, scans, catalog, uas, coupons>>

SpecParse == InitParse /\ [][ParsePredictions]_vars

-----------------------------------------------------------------------------
(* Image compression before the provider calls. Sizes are in KB. *)

\* The JPEG qualities 85, 75, ..., 15 an encoder can be asked for from 85.
Qualities == {85 - 10 * k : k \in 0..7}

\* while len(compressed_data) > target_size and quality > 20:
\*     quality -= 10; img.save(..., quality=quality)
\* encoded maps a quality to the size of the JPEG saved at it; saved lists the
\* qualities saved at so far.
RECURSIVE ReduceQuality(_, _, _, _)
ReduceQuality(encoded, target_size, quality, saved) ==
    IF encoded[quality] > target_size /\ quality > 20
    THEN ReduceQuality(encoded, target_size, quality - 10, Append(saved, quality - 10))
    ELSE [data |-> "jpeg", size |-> encoded[quality], quality |-> quality,
          saved |-> saved]

\* compress_image(image_data, max_size_kb, quality)
compress_image(image, max_size_kb, quality) ==
    LET unchanged == [data |-> "image_data", size |-> image.original_size,
                      quality |-> quality, saved |-> <<>>]
    IN  IF ~image.decodable THEN unchanged
        ELSE IF image.original_size <= max_size_kb THEN unchanged
        ELSE ReduceQuality(image.encoded, max_size_kb, quality, <<quality>>)

\* Uploads: below, at and above 800 KB, decodable or not, with JPEG encodings
\* that fit or do not fit the target at each quality.
Images ==
    [original_size : {500, 800, 801}, decodable : BOOLEAN,
     encoded : [Qualities -> {800, 801}]]

InitCompress ==
    /\ today = 0
    /\ jwks_cache = NotFetched
    /\ inflight = <<>>
    /\ users = Registered
    /\ plants = <<>>
    /\ scans = <<>>
    /\ catalog = <<>>
    /\ uas = <<>>
    /\ coupons = <<>>
    /\ \E image \in Images : resp = Response("image", None, image, 0, "", NoRow)

\* compressed_image_data = compress_image(image_data)
Compress ==
    /\ resp.op = "image"
    /\ resp' = Response("compress_image", None, resp.req, 200, "",
                        compress_image(resp.req, 800, 85))
    /\ UNCHANGED <<jwks_cache, inflight,
                   today, users, plants, scans, catalog, uas, coupons>>

SpecCompress == InitCompress /\ [][Compress]_vars

-----------------------------------------------------------------------------
(* The public achievement list. *)

\* GET /api/v1/achievements/ : the 404 raised inside the try block is caught
\* by its `except Exception` and answered as 500, str(e) in the detail.
get_all_achievements ==
    LET op == "GET /achievements/"
        achievements == ActiveAchievements
    IN  /\ resp' = IF achievements = <<>>
                   THEN Response(op, None, NoRow, 500,
                                 "Error fetching achievements: 404: Achievements not found",
                                 NoRow)
                   ELSE Response(op, None, NoRow, 200, "",
                                 [id |-> 0, achievements |-> achievements])
        /\ UNCHANGED <<jwks_cache, inflight,
                       today, users, plants, scans, catalog, uas, coupons>>

\* A catalog holding each seeded achievement as seeded, deactivated,
\* reactivated or not at all.
RECURSIVE CatalogWith(_, _)
CatalogWith(how, n) ==
    IF n > Len(SeededCatalog) THEN <<>>
    ELSE (IF how[n] = "absent" THEN <<>>
          ELSE <<[SeededCatalog[n] EXCEPT !.is_active = (how[n] = "active")]>>)
         \o CatalogWith(how, n + 1)

InitCatalog ==
    /\ today = 0
    /\ jwks_cache = NotFetched
    /\ inflight = <<>>
    /\ users = <<>>
    /\ plants = <<>>
    /\ scans = <<>>
    /\ \E how \in [1..Len(SeededCatalog) -> {"absent", "active", "inactive"}] :
           catalog = CatalogWith(how, 1)
    /\ uas = <<>>
    /\ coupons = <<>>
    /\ resp = NoResp

NextCatalog == get_all_achievements

SpecCatalog == InitCatalog /\ [][NextCatalog]_vars

-----------------------------------------------------------------------------
(* Token verification against the provider's signing keys. *)

\* The key ids the provider publishes, before and after a rotation.
KeySets == {<<"kid-1">>, <<"kid-1", "kid-2">>}

\* What requests.get(COGNITO_JWKS_URL) gives when it is called: a key set, or
\* an error (connection failure or a non-2xx status).
Fetches ==
    {[ok |-> FALSE, keys |-> <<>>]} \cup {[ok |-> TRUE, keys |-> k] : k \in KeySets}

\* Bearer tokens: the kid of the header (None: no readable kid), whether the
\* signature verifies under that key, whether exp has passed, whether iss is
\* the user pool, and the sub claim.
Tokens ==
    [kid : {"kid-1", "kid-2", "kid-9", None}, signed : BOOLEAN,
     expired : BOOLEAN, issuer_ok : BOOLEAN, sub : Subjects]

\* @lru_cache() get_cognito_public_keys(): a cached value is returned without
\* a fetch; a successful fetch is cached; a failed one raises
\* HTTPException(500) and leaves the cache as it was.
get_cognito_public_keys(fetched) ==
    IF jwks_cache.hit
    THEN [raised |-> FALSE, keys |-> jwks_cache.keys, cache |-> jwks_cache]
    ELSE IF fetched.ok
    THEN [raised |-> FALSE, keys |-> fetched.keys,
          cache |-> [hit |-> TRUE, keys |-> fetched.keys]]
    ELSE [raised |-> TRUE, keys |-> <<>>, cache |-> jwks_cache]

HasKid(keys, kid) == \E k \in 1..Len(keys) : keys[k] = kid

\* verify_cognito_token: everything happens inside one try block whose last
\* clause, `except Exception`, answers 401; the HTTPExceptions raised inside
\* the block (the 500 of the key fetch, the 401 of the unknown kid) are
\* Exceptions and end there too.
verify_cognito_token(token, fetched) ==
    LET got == get_cognito_public_keys(fetched)
        Unauthorized(detail, cache) ==
            [status |-> 401, detail |-> detail, cache |-> cache]
    IN  IF token.kid = None
        THEN Unauthorized("Invalid token: 'kid'", jwks_cache)
        ELSE IF got.raised
        THEN Unauthorized("Invalid token: 500: Failed to fetch Cognito public keys",
                          got.cache)
        ELSE IF ~HasKid(got.keys, token.kid)
        THEN Unauthorized("Invalid token: 401: Invalid token: public key not found",
                          got.cache)
        ELSE IF ~token.signed
        THEN Unauthorized("Invalid token: Signature verification failed.", got.cache)
        ELSE IF token.expired
        THEN Unauthorized("Token has expired", got.cache)
        ELSE IF ~token.issuer_ok
        THEN Unauthorized("Invalid token claims: Invalid issuer", got.cache)
        ELSE [status |-> 200, detail |-> "", cache |-> got.cache]

\* A request carrying a bearer token reaches Depends(get_current_user_info),
\* which verifies the token.
Authenticate(token, fetched) ==
    LET op == "verify_cognito_token"
        verified == verify_cognito_token(token, fetched)
    IN  /\ resp' = Response(op, token.sub, token, verified.status, verified.detail,
                            IF verified.status = 200
                            THEN [id |-> 0, cognito_user_id |-> token.sub]
                            ELSE NoRow)
        /\ jwks_cache' = verified.cache
        /\ UNCHANGED <<today, users, plants, scans, catalog, uas, coupons, inflight>>

InitAuth ==
    /\ today = 0
    /\ users = <<>>
    /\ plants = <<>>
    /\ scans = <<>>
    /\ catalog = <<>>
    /\ uas = <<>>
    /\ coupons = <<>>
    /\ resp = NoResp
    /\ jwks_cache = NotFetched
    /\ inflight = <<>>

NextAuth == \E token \in Tokens, fetched \in Fetches : Authenticate(token, fetched)

SpecAuth == InitAuth /\ [][NextAuth]_vars

-----------------------------------------------------------------------------
(* Handlers that read, decide and commit, run by several requests at once.
   Each request has its own session: what it read stays as it was read until
   it commits, and another request may read or commit in between. *)

\* The requests followed between their reads and their commit.
MaxInFlight == 2

\* A request that has read and decided, and the rows it is about to insert.
Pending(op, caller, req, user_id, rows) ==
    [op |-> op, caller |-> caller, req |-> req, user_id |-> user_id, rows |-> rows]

RemoveAt(s, i) == SubSeq(s, 1, i - 1) \o SubSeq(s, i + 1, Len(s))

\* POST /api/v1/storefront/purchase up to db.add(coupon): the user lookup, the
\* tier check, the balance read from the committed rows, and the refusal.
PurchaseBegin(sub, req, code) ==
    LET user == UserBySub(sub)
        op == "POST /storefront/purchase"
        earned == PurchaseEarned(CompletedCount(user.id),
                                 calculate_user_streak(scans, user.id))
        spent == Spent(user.id)
        remaining == earned - spent
        coupon == NewCoupon(user.id, req, code)
    IN  /\ Len(inflight) < MaxInFlight
        /\ IF ~Found(user)
           THEN /\ resp' = NotFoundUser(op, sub, req)
                /\ inflight' = inflight
           ELSE IF <<req.discount_percent, req.cost_coins>> \notin valid_tiers
           THEN /\ resp' = Response(op, sub, req, 400, "Invalid coupon tier", NoRow)
                /\ inflight' = inflight
           ELSE IF Insufficient(remaining, req.cost_coins)
           THEN /\ resp' = Response(op, sub, req, 200, "",
                                    [id |-> user.id, success |-> FALSE,
                                     message |-> "Insufficient coins", coupon |-> NoRow])
                /\ inflight' = inflight
           ELSE /\ inflight' = Append(inflight,
                                      Pending(op, sub, req, user.id, <<coupon>>))
                /\ resp' = resp
        /\ UNCHANGED <<today, users, plants, scans, catalog, uas, coupons, jwks_cache>>

\* db.commit() and db.refresh(coupon) of a purchase that passed its checks:
\* the row gets its id on insert.
PurchaseCommit(i) ==
    LET p == inflight[i]
        coupon == [p.rows[1] EXCEPT !.id = Len(coupons) + 1]
    IN  /\ p.op = "POST /storefront/purchase"
        /\ coupons' = Append(coupons, coupon)
        /\ resp' = Response(p.op, p.caller, p.req, 200, "",
                            [id |-> p.user_id, success |-> TRUE,
                             message |-> "Coupon purchased", coupon |-> coupon])
        /\ inflight' = RemoveAt(inflight, i)
        /\ UNCHANGED <<today, users, plants, scans, catalog, uas, jwks_cache>>

InitPurchases ==
    /\ today \in 0..1
    /\ users = Registered
    /\ plants = <<BarePlant(1, 1), BarePlant(2, 2)>>
    /\ \E days \in SUBSET (0..today) : scans = ScansOn(1, 1, days, 0)
    /\ catalog = SeededCatalog
    /\ \E k \in 0..3 : uas = RowsWithCompleted(2, 0) \o RowsWithCompleted(1, k)
    /\ coupons = <<>>
    /\ resp = NoResp
    /\ jwks_cache = NotFetched
    /\ inflight = <<>>

NextPurchases ==
    \/ \E sub \in StoreCallers, req \in PurchaseRequests, code \in CouponCodes :
           PurchaseBegin(sub, req, code)
    \/ \E i \in 1..Len(inflight) : PurchaseCommit(i)

SpecPurchases == InitPurchases /\ [][NextPurchases]_vars

\* initialize_user_achievements up to db.commit(): each existence check reads
\* the committed rows, and the rows found missing are added to the session.
ToInsert(user_id) ==
    SubSeq(initialize_user_achievements(uas, user_id), Len(uas) + 1,
           Len(initialize_user_achievements(uas, user_id)))

\* A direct call of initialize_user_achievements(user.id, db), up to its commit.
InitializeBegin(user_id) ==
    LET op == "initialize_user_achievements"
    IN  /\ Len(inflight) < MaxInFlight
        /\ IF ActiveAchievements = <<>>
           THEN /\ resp' = Response(op, None, [user_id |-> user_id], 0, "", NoRow)
                /\ inflight' = inflight
           ELSE /\ inflight' = Append(inflight,
                                      Pending(op, None, [user_id |-> user_id],
                                              user_id, ToInsert(user_id)))
                /\ resp' = resp
        /\ UNCHANGED <<today, users, plants, scans, catalog, uas, coupons, jwks_cache>>

\* POST /api/v1/admin/initialize-user-achievements up to the commit inside
\* initialize_user_achievements.
EndpointBegin(sub) ==
    LET user == UserBySub(sub)
        op == "POST /admin/initialize-user-achievements"
        existing_user_achievements ==
            Cardinality({i \in 1..Len(uas) : uas[i].user_id = user.id})
    IN  /\ Len(inflight) < MaxInFlight
        /\ IF ~Found(user)
           THEN /\ resp' = NotFoundUser(op, sub, NoRow)
                /\ inflight' = inflight
           ELSE IF Len(ActiveAchievements) = 0
           THEN /\ resp' = Response(op, sub, NoRow, 200, "",
                                    [id |-> user.id, success |-> FALSE, count |-> 0])
                /\ inflight' = inflight
           ELSE IF existing_user_achievements > 0
           THEN /\ resp' = Response(op, sub, NoRow, 200, "",
                                    [id |-> user.id, success |-> TRUE,
                                     count |-> existing_user_achievements])
                /\ inflight' = inflight
           ELSE /\ inflight' = Append(inflight,
                                      Pending(op, sub, NoRow, user.id, ToInsert(user.id)))
                /\ resp' = resp
        /\ UNCHANGED <<today, users, plants, scans, catalog, uas, coupons, jwks_cache>>

\* db.commit() of an initialisation, and what its caller answers.
InitializeCommit(i) ==
    LET p == inflight[i]
    IN  /\ p.op # "POST /storefront/purchase"
        /\ uas' = uas \o p.rows
        /\ resp' = IF p.op = "initialize_user_achievements"
                   THEN Response(p.op, None, p.req, 0, "", NoRow)
                   ELSE Response(p.op, p.caller, NoRow, 200, "",
                                 [id |-> p.user_id, success |-> TRUE,
                                  count |-> Cardinality({k \in 1..Len(uas') :
                                                uas'[k].user_id = p.user_id})])
        /\ inflight' = RemoveAt(inflight, i)
        /\ UNCHANGED <<today, users, plants, scans, catalog, coupons, jwks_cache>>

InitInits ==
    /\ today = 0
    /\ users = Registered
    /\ plants = <<>>
    /\ scans = <<>>
    /\ catalog \in {<<>>, SeededCatalog}
    /\ uas = <<>>
    /\ coupons = <<>>
    /\ resp = NoResp
    /\ jwks_cache = NotFetched
    /\ inflight = <<>>

NextInits ==
    \/ \E user_id \in 1..Len(users) : InitializeBegin(user_id)
    \/ \E sub \in StoreCallers : EndpointBegin(sub)
    \/ \E i \in 1..Len(inflight) : InitializeCommit(i)

SpecInits == InitInits /\ [][NextInits]_vars

-----------------------------------------------------------------------------
(* The retry loop of the disease classifier. *)

\* The retry counts a caller may pass.
MaxRetries == 2

\* def query_huggingface_model(image_data, max_retries: int = 2)
max_retries_default == 2

\* What one requests.post gives: a prediction list, a body with an error that
\* is not about loading, a body whose error says the model is loading, a
\* timeout, or another request error (raise_for_status included).
ProviderOutcomes == {"predictions", "error_body", "loading", "timeout", "request_error"}

\* The provider's behaviour on the successive attempts of one call.
Providers == [1..(Max(MaxRetries, max_retries_default) + 1) -> ProviderOutcomes]

\* Mutant of RetryAllowed: one retry whatever max_retries is.
RetryAllowedOnce(attempt, max_retries) == attempt < 1

\* if attempt < max_retries:
RetryAllowed(attempt, max_retries) == attempt < max_retries

\* timeout = 60 if attempt == 0 else 30
TimeoutOf(attempt) == IF attempt = 0 THEN 60 ELSE 30

\* time.sleep(10), time.sleep(5), time.sleep(3)
SleepAfter(outcome) ==
    CASE outcome = "loading" -> 10
      [] outcome = "timeout" -> 5
      [] OTHER -> 3

\* raise HTTPException(503, ...) of the last attempt
Exhausted(outcome) ==
    CASE outcome = "loading" ->
             "Hugging Face model is still loading, please try again in a few minutes"
      [] outcome = "timeout" -> "Hugging Face API timeout"
      [] OTHER -> "Error calling Hugging Face API"

\* for attempt in range(max_retries + 1): one round of the loop and the rounds
\* after it; timeouts and sleeps are the timeouts used and the waits made so far.
RECURSIVE Attempts(_, _, _, _, _)
Attempts(provider, max_retries, attempt, timeouts, sleeps) ==
    LET outcome == provider[attempt + 1]
        used == Append(timeouts, TimeoutOf(attempt))
    IN  IF attempt > max_retries
        THEN [raised |-> FALSE, response |-> None, detail |-> "",
              timeouts |-> timeouts, sleeps |-> sleeps]
        ELSE IF outcome \in {"predictions", "error_body"}
        THEN [raised |-> FALSE, response |-> outcome, detail |-> "",
              timeouts |-> used, sleeps |-> sleeps]
        ELSE IF RetryAllowed(attempt, max_retries)
        THEN Attempts(provider, max_retries, attempt + 1, used,
                      Append(sleeps, SleepAfter(outcome)))
        ELSE [raised |-> TRUE, response |-> None, detail |-> Exhausted(outcome),
              timeouts |-> used, sleeps |-> sleeps]

query_huggingface_model(provider, max_retries) ==
    Attempts(provider, max_retries, 0, <<>>, <<>>)

\* A call that passes max_retries, or leaves it out (UnsetNum) as scan_plant does.
InitRetry ==
    /\ today = 0
    /\ users = <<>>
    /\ plants = <<>>
    /\ scans = <<>>
    /\ catalog = <<>>
    /\ uas = <<>>
    /\ coupons = <<>>
    /\ \E provider \in Providers, max_retries \in {UnsetNum} \cup 0..MaxRetries :
           resp = Response("call", None,
                           [id |-> 0, provider |-> provider, max_retries |-> max_retries],
                           0, "", NoRow)
    /\ jwks_cache = NotFetched
    /\ inflight = <<>>

QueryModel ==
    LET max_retries == IF resp.req.max_retries = UnsetNum THEN max_retries_default
                       ELSE resp.req.max_retries
        result == query_huggingface_model(resp.req.provider, max_retries)
    IN  /\ resp.op = "call"
        /\ resp' = Response("query_huggingface_model", None, resp.req,
                            IF result.raised THEN 503 ELSE 200, result.detail,
                            [id |-> 0, response |-> result.response,
                             timeouts |-> result.timeouts, sleeps |-> result.sleeps])
        /\ UNCHANGED <<today, users, plants, scans, catalog, uas, coupons,
                       jwks_cache, inflight>>

SpecRetry == InitRetry /\ [][QueryModel]_vars

-----------------------------------------------------------------------------
(* The scan endpoint in every world, on any day of a short history. *)

\* The first user is initialised and has rescanned its plant on some of the
\* days before today; the second user has a plant and no achievement rows.
InitScan ==
    /\ today \in 0..GameDays
    /\ jwks_cache = NotFetched
    /\ inflight = <<>>
    /\ users = Registered
    /\ plants = <<BarePlant(1, 1), BarePlant(2, 2)>>
    /\ \E days \in SUBSET (0..(today - 1)) : scans = ScansOn(1, 1, days, 0)
    /\ catalog = SeededCatalog
    /\ uas = InitLoop(SelectSeq(SeededCatalog, LAMBDA a : a.is_active), <<>>, 1)
    /\ coupons = <<>>
    /\ resp = NoResp

\* The first user scans a photo, or rescans its plant if no plant was rescanned
\* today, in any world; any caller scans anything when nothing fails.
NextScan ==
    \/ \E id \in {1, NoPlantId}, w \in ScanWorlds :
          /\ id = NoPlantId \/ \A n \in 1..Len(scans) : scans[n].scan_date # today
          /\ scan_plant("sub-a", id, w)
    \/ \E sub \in StoreCallers, id \in PlantIds \cup {NoPlantId} :
          /\ id = NoPlantId \/ \A n \in 1..Len(scans) : scans[n].scan_date # today
          /\ scan_plant(sub, id, FairWeather)

SpecScan == InitScan /\ [][NextScan]_vars

-----------------------------------------------------------------------------
(* The garden with database faults and a catalog of plant-collection badges. *)

\* The plants_count badges of the seeded catalog, for gardens of 1 and 2 plants.
GardenCatalog ==
    <<[id |-> "green-thumb", achievement_type |-> "plants_count",
       requirement_value |-> 1, points_awarded |-> 10, is_active |-> TRUE],
      [id |-> "green-garden", achievement_type |-> "plants_count",
       requirement_value |-> 2, points_awarded |-> 50, is_active |-> TRUE]>>

\* Both users are initialised; the first user's plant has been rescanned any
\* number of times (up to MaxPerDay) today.
InitGarden ==
    /\ today = 0
    /\ jwks_cache = NotFetched
    /\ inflight = <<>>
    /\ users = Registered
    /\ plants = <<BarePlant(1, 1)>>
    /\ \E n \in 0..MaxPerDay : scans = [i \in 1..n |-> ScanRow(1, 1, 0)]
    /\ catalog = GardenCatalog
    /\ uas = InitLoop(GardenCatalog, InitLoop(GardenCatalog, <<>>, 1), 2)
    /\ coupons = <<>>
    /\ resp = NoResp

NextGarden ==
    \/ \E sub \in Subjects, request \in AddRequests, fault \in DbFaults :
           add_to_garden(sub, request, fault)
    \/ \E sub \in Subjects, id \in PlantIds \cup {MaxPlants + 1}, fault \in DbFaults :
           delete_plant(sub, id, fault)

SpecGarden == InitGarden /\ [][NextGarden]_vars

-----------------------------------------------------------------------------
(* Claims about the garden, under SpecGarden. *)

ScansOfPlant(table, plant_id) ==
    {i \in 1..Len(table) : table[i].plant_id = plant_id}

HasPlant(table, plant_id) == \E i \in 1..Len(table) : table[i].id = plant_id

PlantsOfUser(table, user_id) ==
    {i \in 1..Len(table) : table[i].user_id = user_id}

\* C11: after a successful DELETE by the owner no Plant row has the id and no
\* PlantScan row references it, however many scans there were; after a 500 the
\* plant and all its scans remain.
C11_DeleteAllOrNothing ==
    [][resp'.op = "DELETE /plants" =>
        /\ resp'.status = 200 =>
              /\ ~HasPlant(plants', resp'.req.plant_id)
              /\ ScansOfPlant(scans', resp'.req.plant_id) = {}
        /\ resp'.status = 500 => plants' = plants /\ scans' = scans
      ]_vars

\* C12: to a caller, DELETE of an id that is another user's plant answers with
\* the status and body (detail) it gives for an id no plant has.
C12_DeleteHidesExistence ==
    [][(resp'.op = "DELETE /plants" /\ resp'.status = 404
        /\ resp'.detail # "User not found") =>
            resp'.detail = "Plant not found or you don't have permission to delete it"
      ]_vars

\* C17: a successful add-to-garden creates exactly one Plant row of the caller
\* (streak_days 1, last_check_in set) and exactly one PlantScan row of it when
\* care notes or a disease came with the request, none otherwise; after a 500
\* neither row is stored; no scan is ever stored without its plant.
C17_AddAllOrNothing ==
    [][resp'.op = "POST /plants/add-to-garden" =>
        /\ resp'.status = 200 =>
              /\ Len(plants') = Len(plants) + 1
              /\ plants'[Len(plants')].user_id = UserBySub(resp'.caller).id
              /\ plants'[Len(plants')].streak_days = 1
              /\ plants'[Len(plants')].last_check_in = today
              /\ Cardinality(ScansOfPlant(scans', plants'[Len(plants')].id)) =
                     IF Truthy(resp'.req.care_notes)
                        \/ resp'.req.disease_detected # None THEN 1 ELSE 0
        /\ resp'.status = 500 => plants' = plants /\ scans' = scans
        /\ \A i \in 1..Len(scans') : HasPlant(plants', scans'[i].plant_id)
      ]_vars

\* C18: after a successful add-to-garden by a user whose achievements are
\* initialised, each plants_count row of the user that is not completed holds
\* the user's plant count, and each with requirement <= the count is completed.
C18_PlantsCountDriven ==
    [][(resp'.op = "POST /plants/add-to-garden" /\ resp'.status = 200) =>
        LET user_id == UserBySub(resp'.caller).id
            n == Cardinality(PlantsOfUser(plants', user_id))
        IN  \A i \in 1..Len(uas') :
               LET a == catalog[CHOOSE k \in 1..Len(catalog) :
                                    catalog[k].id = uas'[i].achievement_id]
               IN  (uas'[i].user_id = user_id /\ a.achievement_type = "plants_count")
                   => /\ ~uas'[i].is_completed => uas'[i].current_progress = n
                      /\ a.requirement_value <= n => uas'[i].is_completed
      ]_vars

-----------------------------------------------------------------------------
(* Claims about the achievement engine, under SpecAch. *)

\* The responses of the three callers that end in update_achievement_progress.
EngineOps == {"update_achievement_progress",
              "POST /achievements/user/check-streaks", "POST /scan"}

EngineRan(r) == r.op \in EngineOps /\ r.status \in {0, 200}

\* The value a response shows was reported for a type, NoneNum if none was.
Reported(r, achievement_type) ==
    IF r.op = "update_achievement_progress"
    THEN IF r.req.achievement_type = achievement_type
         THEN r.req.new_value ELSE NoneNum
    ELSE IF achievement_type = "streak" THEN r.body.current_streak
    ELSE IF achievement_type = "scans_count" /\ r.op = "POST /scan"
    THEN r.body.total_scans
    ELSE NoneNum

AchievementOf(row) ==
    catalog[CHOOSE k \in 1..Len(catalog) : catalog[k].id = row.achievement_id]

\* The row is one the finished call had to evaluate.
Evaluated(r, row) ==
    /\ row.user_id = r.body.id
    /\ AchievementOf(row).is_active
    /\ Reported(r, AchievementOf(row).achievement_type) # NoneNum
    /\ ~row.is_completed

\* C6: an update of (user, type, v) sets current_progress to v on every
\* not-completed row of the user for an active achievement of the type; the row
\* is completed, stamped with the day and returned as newly completed iff
\* v >= requirement_value, and otherwise stays not completed without a stamp;
\* every other row (other types, other users, inactive) is left as it was.
C6_UpdateSetsProgress ==
    [][EngineRan(resp') =>
        /\ Len(uas') = Len(uas)
        /\ \A i \in 1..Len(uas) :
              LET row == uas[i]
                  a == AchievementOf(row)
                  v == Reported(resp', a.achievement_type)
                  met == v >= a.requirement_value
              IN  IF Evaluated(resp', row)
                  THEN /\ uas'[i] = [row EXCEPT
                              !.current_progress = v,
                              !.is_completed = met,
                              !.completed_at = IF met THEN today ELSE NoneNum]
                       /\ met <=> a.id \in Range(resp'.body.newly_completed)
                  ELSE uas'[i] = row
      ]_vars

\* A value of 1 for scans_count has completed the requirement-1 badge and left
\* the requirement-2 badge in progress, beside a streak row and another user's rows.
C6_Witness ==
    /\ resp.op = "update_achievement_progress"
    /\ resp.req = [user_id |-> 1, achievement_type |-> "scans_count", new_value |-> 1]
    /\ resp.body.newly_completed = <<"first-scan">>
    /\ \E i, j, k, l \in 1..Len(uas) :
          /\ uas[i] = [user_id |-> 1, achievement_id |-> "first-scan",
                       current_progress |-> 1, is_completed |-> TRUE,
                       completed_at |-> today]
          /\ uas[j] = [user_id |-> 1, achievement_id |-> "second-scan",
                       current_progress |-> 1, is_completed |-> FALSE,
                       completed_at |-> NoneNum]
          /\ uas[k].user_id = 1 /\ uas[k].achievement_id = "two-day-streak"
          /\ uas[k].current_progress = 2
          /\ uas[l].user_id = 2

\* C7: a completed row is never changed again (is_completed, completed_at,
\* current_progress) by updates, check-streaks calls or scans, and is never
\* again returned as newly completed.
C7_CompletedIsFinal ==
    [][\A i \in 1..Len(uas) :
          uas[i].is_completed =>
              /\ i <= Len(uas')
              /\ uas'[i] = uas[i]
              /\ (EngineRan(resp') /\ resp'.body.id = uas[i].user_id)
                    => uas[i].achievement_id \notin Range(resp'.body.newly_completed)
      ]_vars

\* A row completed on an earlier day has met an update of its type with a
\* value below its requirement.
C7_Witness ==
    /\ EngineRan(resp)
    /\ \E i \in 1..Len(uas) :
          /\ uas[i].is_completed
          /\ uas[i].user_id = resp.body.id
          /\ uas[i].completed_at < today
          /\ Reported(resp, AchievementOf(uas[i]).achievement_type) # NoneNum
          /\ Reported(resp, AchievementOf(uas[i]).achievement_type)
                 < AchievementOf(uas[i]).requirement_value

\* C8 as stated: the current_progress of a row never decreases.
C8_ProgressNeverDecreases ==
    [][\A i \in 1..Len(uas) :
          i <= Len(uas') /\ uas'[i].current_progress >= uas[i].current_progress
      ]_vars

\* C8, amended: the current_progress of a completed row never decreases; a
\* not-completed row holds the value of the latest update of its type, lower
\* than the value before when the reported value is lower.
C8_ProgressFollowsUpdates ==
    [][\A i \in 1..Len(uas) :
          /\ i <= Len(uas')
          /\ uas[i].is_completed
                => uas'[i].current_progress >= uas[i].current_progress
          /\ (EngineRan(resp') /\ Evaluated(resp', uas[i]))
                => uas'[i].current_progress =
                       Reported(resp', AchievementOf(uas[i]).achievement_type)
      ]_vars

\* A streak row that a scan had moved to 1 stands at 0 after a check-streaks
\* call on a later day.
C8_Witness ==
    /\ resp.op = "POST /achievements/user/check-streaks"
    /\ resp.status = 200
    /\ resp.body.current_streak = 0
    /\ \E n \in 1..Len(scans) : scans[n].user_id = resp.body.id
    /\ \E i \in 1..Len(uas) :
          /\ uas[i].user_id = resp.body.id
          /\ uas[i].achievement_id = "two-day-streak"
          /\ ~uas[i].is_completed
          /\ uas[i].current_progress = 0

\* The rows a user holds for an achievement.
RowsFor(rows, user_id, achievement_id) ==
    {i \in 1..Len(rows) :
        rows[i].user_id = user_id /\ rows[i].achievement_id = achievement_id}

\* C9: after initialize_user_achievements has run for a user, the user holds
\* exactly one row per active achievement; a row it creates has progress 0 and
\* is not completed; it changes no row that existed, and a repeated call adds
\* no row.
C9_InitializeIdempotent ==
    [][(resp'.op = "initialize_user_achievements") =>
        LET user_id == resp'.req.user_id
            had == \A k \in 1..Len(ActiveAchievements) :
                       RowsFor(uas, user_id, ActiveAchievements[k].id) # {}
        IN  /\ \A k \in 1..Len(ActiveAchievements) :
                  Cardinality(RowsFor(uas', user_id, ActiveAchievements[k].id)) = 1
            /\ Len(uas') >= Len(uas)
            /\ \A i \in 1..Len(uas) : uas'[i] = uas[i]
            /\ \A i \in (Len(uas) + 1)..Len(uas') :
                  /\ uas'[i].user_id = user_id
                  /\ uas'[i].current_progress = 0
                  /\ ~uas'[i].is_completed
                  /\ AchievementOf(uas'[i]).is_active
            /\ had => uas' = uas
      ]_vars

\* A repeated call for a user whose rows have progressed and completed since
\* the first call, with another user's rows in the table.
C9_Witness ==
    /\ resp.op = "initialize_user_achievements"
    /\ catalog # <<>>
    /\ \E i, j, k \in 1..Len(uas) :
          /\ uas[i].user_id = resp.req.user_id /\ uas[i].is_completed
          /\ uas[j].user_id = resp.req.user_id /\ ~uas[j].is_completed
          /\ uas[j].current_progress > 0
          /\ uas[k].user_id # resp.req.user_id
    /\ \A k \in 1..Len(ActiveAchievements) :
          Cardinality(RowsFor(uas, resp.req.user_id, ActiveAchievements[k].id)) = 1

-----------------------------------------------------------------------------
(* Claims about the storefront, under SpecStore. *)

\* The caller's earned and spent coins, from the tables.
CoinsEarned(user_id) ==
    30 + 20 * Cardinality({i \in 1..Len(uas) :
                              uas[i].user_id = user_id /\ uas[i].is_completed})
       + 5 * calculate_user_streak(scans, user_id)

CoinsSpent(table, user_id) ==
    SeqSum([i \in 1..Len(table) |->
               IF table[i].user_id = user_id THEN table[i].cost_coins ELSE 0])

Whitelisted(req) ==
    \/ req.discount_percent = 5 /\ req.cost_coins = 50
    \/ req.discount_percent = 10 /\ req.cost_coins = 100
    \/ req.discount_percent = 20 /\ req.cost_coins = 150

\* C2: a purchase by a registered caller persists a coupon iff the requested
\* pair is (5,50), (10,100) or (20,150) and earned minus spent is at least the
\* cost. Another pair is answered 400 whatever the balance; a whitelisted pair
\* costing more than the balance is answered success=false without a coupon;
\* both leave the coupon rows unchanged.
C2_PurchaseIffTierAndBalance ==
    [][(resp'.op = "POST /storefront/purchase" /\ resp'.status # 404) =>
        LET user == UserBySub(resp'.caller)
            req == resp'.req
            remaining == CoinsEarned(user.id) - CoinsSpent(coupons, user.id)
        IN  IF Whitelisted(req) /\ remaining >= req.cost_coins
            THEN /\ Len(coupons') = Len(coupons) + 1
                 /\ SubSeq(coupons', 1, Len(coupons)) = coupons
                 /\ coupons'[Len(coupons')].user_id = user.id
                 /\ coupons'[Len(coupons')].discount_percent = req.discount_percent
                 /\ coupons'[Len(coupons')].cost_coins = req.cost_coins
                 /\ resp'.status = 200 /\ resp'.body.success
                 /\ resp'.body.coupon = coupons'[Len(coupons')]
            ELSE /\ coupons' = coupons
                 /\ IF Whitelisted(req)
                    THEN /\ resp'.status = 200
                         /\ ~resp'.body.success
                         /\ resp'.body.coupon = NoRow
                    ELSE resp'.status = 400
      ]_vars

\* A caller holding exactly 50 coins has bought the 50-coin coupon, beside
\* another user's coupon.
C2_Witness ==
    /\ resp.op = "POST /storefront/purchase"
    /\ resp.status = 200
    /\ resp.body.success
    /\ resp.req.cost_coins = 50
    /\ CoinsEarned(resp.body.id) = 50
    /\ CoinsSpent(coupons, resp.body.id) = 50
    /\ \E i \in 1..Len(coupons) : coupons[i].user_id # resp.body.id

-----------------------------------------------------------------------------
(* Claims about the users router, under SpecUsers. *)

UserOps == {"GET /users/me", "POST /users"}

RowsOfSub(table, sub) ==
    Cardinality({i \in 1..Len(table) : table[i].cognito_user_id = sub})

EmailTaken(sub, email) ==
    \E i \in 1..Len(users) :
        users[i].email = email /\ users[i].cognito_user_id # sub

\* The display name a first request stores: the submitted name on POST, and on
\* /me the claimed name, else the claimed username, else "Plant Lover".
FirstName(op, req) ==
    IF op = "POST /users" THEN req.name
    ELSE IF req.name # None THEN req.name
    ELSE IF req.username # None THEN req.username
    ELSE "Plant Lover"

\* C10 as stated: a request by a subject id that has no User row creates
\* exactly one row for it; a request by a subject id that has a row returns
\* that row and changes nothing; never more than one row per subject id.
C10_FirstRequestAlwaysCreates ==
    [][resp'.op \in UserOps =>
        LET sub == resp'.caller
        IN  /\ RowsOfSub(users', sub) = 1
            /\ Found(UserBySub(sub)) =>
                    users' = users /\ resp'.status = 200 /\ resp'.body = UserBySub(sub)
      ]_vars

\* C10 amended: the first request creates the row unless its email is already
\* stored on another subject's row, in which case it answers 500 and creates
\* nothing; every later request returns the stored row unchanged; never more
\* than one row per subject id.
C10_UserUpsert ==
    [][resp'.op \in UserOps =>
        LET sub == resp'.caller
            req == resp'.req
            old == UserBySub(sub)
        IN  /\ RowsOfSub(users', sub) <= 1
            /\ Found(old) =>
                    users' = users /\ resp'.status = 200 /\ resp'.body = old
            /\ ~Found(old) /\ ~EmailTaken(sub, req.email) =>
                    /\ Len(users') = Len(users) + 1
                    /\ SubSeq(users', 1, Len(users)) = users
                    /\ users'[Len(users')].cognito_user_id = sub
                    /\ users'[Len(users')].email = req.email
                    /\ users'[Len(users')].name = FirstName(resp'.op, req)
                    /\ resp'.status = 200
                    /\ resp'.body = users'[Len(users')]
            /\ ~Found(old) /\ EmailTaken(sub, req.email) =>
                    users' = users /\ resp'.status = 500
      ]_vars

\* A row created on /me with the fallback name is returned, as stored, to a
\* later POST that submits another email.
C10_Witness ==
    /\ resp.op = "POST /users"
    /\ resp.status = 200
    /\ resp.body.name = "Plant Lover"
    /\ resp.body.email # resp.req.email
    /\ RowsOfSub(users, resp.caller) = 1

-----------------------------------------------------------------------------
(* Claims about the plants router, under SpecPlants. *)

PlantWriteOps == {"PUT /plants", "DELETE /plants"}

\* C1: a PUT or DELETE on a stored plant by a caller who has a User row and is
\* not the plant's owner answers 404, and leaves the plants table and the
\* plant_scans table (so the plant and all its scans) exactly as they were.
C1_ForeignPlantUntouched ==
    [][resp'.op \in PlantWriteOps =>
        \A i \in 1..Len(plants), k \in 1..Len(users) :
            ( /\ plants[i].id = resp'.req.plant_id
              /\ users[k].cognito_user_id = resp'.caller
              /\ plants[i].user_id # users[k].id )
            => /\ resp'.status = 404
               /\ plants' = plants
               /\ scans' = scans
      ]_vars

\* A caller was just refused (404) on a plant that is stored under another
\* user's id together with a scan of it.
C1_Witness ==
    /\ resp.op \in PlantWriteOps
    /\ resp.status = 404
    /\ \E i \in 1..Len(plants), k \in 1..Len(users), j \in 1..Len(scans) :
          /\ plants[i].id = resp.req.plant_id
          /\ users[k].cognito_user_id = resp.caller
          /\ plants[i].user_id # users[k].id
          /\ scans[j].plant_id = plants[i].id

-----------------------------------------------------------------------------
(* Claims about calculate_user_streak, under SpecStreak. *)

\* The most recent scan date of a user who has scans.
LatestScan(user_id) ==
    CHOOSE d \in ScanDatesOf(scans, user_id) : \A e \in ScanDatesOf(scans, user_id) : e <= d

\* The length of the maximal run of consecutive days ending on day t on which
\* the user has a scan (t itself being such a day).
RunEnding(user_id, t) ==
    CHOOSE k \in 1..(t + 1) :
        /\ \A i \in 0..(k - 1) : (t - i) \in ScanDatesOf(scans, user_id)
        /\ (t - k) \notin ScanDatesOf(scans, user_id)

\* What the streak endpoint last answered to a user equals the function.
StreakAnswered ==
    resp.op = "GET /achievements/user/streak" /\ resp.status = 200 =>
        resp.body.current_streak = calculate_user_streak(scans, resp.body.id)

\* C4: with a scan today the streak is the length of the run of consecutive
\* scan days ending today (several scans on a day count once); with no scan
\* at all, or the latest scan two or more days ago, it is 0.
C4_StreakIsRunEndingToday ==
    /\ StreakAnswered
    /\ \A i \in 1..Len(users) :
         LET u == users[i].id
         IN  /\ today \in ScanDatesOf(scans, u) =>
                    calculate_user_streak(scans, u) = RunEnding(u, today)
             /\ ScanDatesOf(scans, u) = {} => calculate_user_streak(scans, u) = 0
             /\ ScanDatesOf(scans, u) # {} /\ today - LatestScan(u) >= 2 =>
                    calculate_user_streak(scans, u) = 0

\* The endpoint answered 3 to a user who scanned today (twice), yesterday and
\* the day before, and not on the day before those.
C4_Witness ==
    /\ resp.op = "GET /achievements/user/streak"
    /\ resp.status = 200
    /\ resp.body.current_streak = 3
    /\ today >= 3
    /\ {today, today - 1, today - 2} \subseteq ScanDatesOf(scans, resp.body.id)
    /\ (today - 3) \notin ScanDatesOf(scans, resp.body.id)
    /\ Cardinality({k \in 1..Len(scans) :
           scans[k].user_id = resp.body.id /\ scans[k].scan_date = today}) = 2

\* C5: a user with scans gets 0 only when the latest scan is more than one day
\* before today; with the latest scan yesterday the streak is at least 1.
C5_GraceWindow ==
    \A i \in 1..Len(users) :
        LET u == users[i].id
        IN  ScanDatesOf(scans, u) # {} =>
                /\ calculate_user_streak(scans, u) = 0 => today - LatestScan(u) > 1
                /\ LatestScan(u) = today - 1 => calculate_user_streak(scans, u) >= 1

-----------------------------------------------------------------------------
(* Claims about the scan endpoint. *)

\* The request answered by the step is a scan.
ScanStep == resp'.op = "POST /scan"

\* str.join as the claims read it: the items with "; " between neighbours.
RECURSIVE SemicolonJoined(_)
SemicolonJoined(recs) ==
    IF Len(recs) = 1 THEN recs[1]
    ELSE SemicolonJoined(SubSeq(recs, 1, Len(recs) - 1)) \o "; " \o recs[Len(recs)]

\* The row of that primary key in a plants table.
PlantIn(table, plant_id) == table[Min({i \in 1..Len(table) : table[i].id = plant_id})]

\* C13: a rescan of an owned plant during which no database call raises adds
\* exactly one PlantScan row, of that user and plant, carrying the returned
\* health score, disease and healthy flag and the recommendations joined by
\* "; "; the plant's current_health_score is the returned health score, its
\* streak_days the streak computed over the table holding the new row, and
\* its last_check_in the time of the request.
C13_RescanPersisted ==
    [][(/\ ScanStep
        /\ resp'.status = 200
        /\ resp'.req.plant_id # NoPlantId
        /\ resp'.req.world.persist = "none"
        /\ resp'.req.world.engine = "none")
       => LET result == resp'.body.result
              plant_id == resp'.req.plant_id
              user_id == resp'.body.id
              plant == PlantIn(plants', plant_id)
          IN  /\ scans' = Append(scans,
                     [user_id |-> user_id, plant_id |-> plant_id,
                      scan_date |-> today,
                      health_score |-> result.health_score,
                      care_notes |-> SemicolonJoined(result.care_recommendations),
                      disease_detected |-> result.disease,
                      is_healthy |-> result.is_healthy])
              /\ plant.user_id = user_id
              /\ plant.current_health_score = result.health_score
              /\ plant.streak_days = calculate_user_streak(scans', user_id)
              /\ plant.last_check_in = today
              /\ \A i \in 1..Len(plants) :
                     plants[i].id # plant_id => plants'[i] = plants[i]]_vars

\* C13 witness: on the day after a scan, a rescan found a disease; the new row
\* holds its two recommendations joined and the plant is on a two-day streak.
C13_Witness ==
    /\ resp.op = "POST /scan"
    /\ resp.status = 200
    /\ resp.req.plant_id = 1
    /\ resp.req.world.persist = "none"
    /\ resp.req.world.engine = "none"
    /\ ~resp.body.result.is_healthy
    /\ Len(resp.body.result.care_recommendations) >= 2
    /\ Len(scans) = 2
    /\ scans[2].disease_detected = "Late Blight"
    /\ scans[2].health_score < 100
    /\ PlantIn(plants, 1).streak_days = 2
    /\ PlantIn(plants, 1).current_health_score = scans[2].health_score

\* C14: a scan without a plant id adds no PlantScan row and changes no Plant
\* row, whatever the providers answer and whichever call fails.
C14_PhotoScanNotPersisted ==
    [][(ScanStep /\ resp'.req.plant_id = NoPlantId)
       => (scans' = scans /\ plants' = plants)]_vars

\* C14 witness: a scan without a plant id was answered with the last-resort
\* result after both disease calls raised, and no scan of today is stored.
C14_Witness ==
    /\ resp.op = "POST /scan"
    /\ resp.status = 200
    /\ resp.req.plant_id = NoPlantId
    /\ resp.req.world.hf = "raise"
    /\ resp.req.world.hf_retry = "raise"
    /\ resp.body.result.species = "Houseplant"
    /\ \A n \in 1..Len(scans) : scans[n].scan_date # today
    /\ plants = <<BarePlant(1, 1), BarePlant(2, 2)>>

\* C15 as stated: when a database call of the streak/achievement phase raises,
\* the scan is answered 200 with the result computed before that phase, with
\* or without a plant id, and a committed scan row and health update stay.
C15_AchievementFailureHarmless ==
    [][(/\ ScanStep
        /\ resp'.req.world.engine # "none"
        /\ resp'.req.world.image = "image"
        /\ Found(UserBySub(resp'.caller))
        /\ (resp'.req.plant_id # NoPlantId
               => Found(OwnedPlant(resp'.req.plant_id, UserBySub(resp'.caller).id))))
       => LET w == resp'.req.world
              plant_id == resp'.req.plant_id
              existing_plant == IF plant_id = NoPlantId THEN NoRow
                                ELSE OwnedPlant(plant_id, UserBySub(resp'.caller).id)
              computed == Analyse(existing_plant, w).result
          IN  /\ resp'.status = 200
              /\ resp'.body.result = computed
              /\ (plant_id # NoPlantId /\ w.persist = "none")
                    => /\ Len(scans') = Len(scans) + 1
                       /\ scans'[Len(scans')].health_score = computed.health_score
                       /\ PlantIn(plants', plant_id).current_health_score
                              = computed.health_score]_vars

\* The scan is a new-plant scan with credentials configured and a valid
\* upload by a registered caller, and no database call raises.
NewPlantScanStep ==
    /\ ScanStep
    /\ resp'.req.plant_id = NoPlantId
    /\ resp'.req.world.hf_token
    /\ resp'.req.world.image = "image"
    /\ resp'.req.world.persist = "none"
    /\ resp'.req.world.engine = "none"
    /\ Found(UserBySub(resp'.caller))

\* The result is built from that prediction list: the healthy flag, disease
\* and confidence of its top prediction.
BuiltFrom(result, predictions) ==
    /\ result.is_healthy = (predictions = HealthyPredictions)
    /\ result.disease = (IF predictions = HealthyPredictions THEN None
                         ELSE "Late Blight")
    /\ result.confidence = 80

\* The degraded result: healthy, no disease, manual-inspection guidance.
Degraded(result) ==
    /\ result.is_healthy
    /\ result.disease = None
    /\ \E i \in 1..Len(result.care_recommendations) :
           result.care_recommendations[i]
               = "AI analysis temporarily unavailable - manual inspection recommended"

\* C16 as stated: in a new-plant scan no outcome of a provider call surfaces
\* as an error status; a failed species call alone leaves a result built from
\* the disease answer; two failed disease calls leave the degraded result.
C16_NoProviderFailureSurfaces ==
    [][NewPlantScanStep
       => LET w == resp'.req.world
          IN  /\ resp'.status = 200
              /\ (w.plantnet = "raise" /\ w.hf = "list")
                    => BuiltFrom(resp'.body.result, w.predictions)
              /\ (w.hf = "raise" /\ w.hf_retry = "raise")
                    => Degraded(resp'.body.result)]_vars

\* C16 amended: in a new-plant scan a provider call that raises never surfaces
\* as an error status: a raised species call alone leaves a result built from
\* the disease answer, a raised disease call is retried once and the retry's
\* prediction list is used, and two raised disease calls leave the degraded
\* result. A disease call (or retry) answering with an empty list or with
\* JSON that is not a list is answered 500 "Invalid response from disease
\* detection model", and nothing else makes the status differ from 200.
C16_RaisedProviderCallsDegrade ==
    [][NewPlantScanStep
       => LET w == resp'.req.world
              answer == IF w.hf = "raise" THEN w.hf_retry ELSE w.hf
          IN  /\ answer \in {"dict", "empty"}
                    => /\ resp'.status = 500
                       /\ resp'.detail = "Invalid response from disease detection model"
              /\ answer \notin {"dict", "empty"} => resp'.status = 200
              /\ answer = "list" => BuiltFrom(resp'.body.result, w.predictions)
              /\ (w.hf = "raise" /\ w.hf_retry = "raise")
                    => Degraded(resp'.body.result)]_vars

\* C16 witness: the species call and the first disease call raised, the retry
\* answered a prediction list, and the scan was answered 200 from that list.
C16_Witness ==
    /\ resp.op = "POST /scan"
    /\ resp.status = 200
    /\ resp.req.plant_id = NoPlantId
    /\ resp.req.world.plantnet = "raise"
    /\ resp.req.world.hf = "raise"
    /\ resp.req.world.hf_retry = "list"
    /\ resp.body.result.is_healthy
    /\ resp.body.result.confidence = 80
    /\ resp.body.result.species # "Houseplant"

-----------------------------------------------------------------------------
(* Claims about the leaderboard. *)

\* The score the claims define: the points of the user's completed
\* achievements + 5 per scan + 10 per healthy scan.
PointsOf(user_id) ==
    SeqSum([k \in 1..Len(catalog) |->
               catalog[k].points_awarded
                   * Cardinality({i \in 1..Len(uas) :
                                     /\ uas[i].user_id = user_id
                                     /\ uas[i].achievement_id = catalog[k].id
                                     /\ uas[i].is_completed})])
    + SeqSum([i \in 1..Len(scans) |->
                 IF scans[i].user_id # user_id THEN 0
                 ELSE IF scans[i].is_healthy THEN 15 ELSE 5])

\* The scores of the first n users, in table order.
RECURSIVE PointsList(_)
PointsList(n) ==
    IF n = 0 THEN <<>> ELSE PointsList(n - 1) \o <<PointsOf(users[n].id)>>

\* The position of the user in table users.
UserPos(user_id) == CHOOSE u \in 1..Len(users) : users[u].id = user_id

\* Competition rank: 1 + the number of users with a strictly greater score.
RankAmong(points, user_id) ==
    1 + Cardinality({u \in 1..Len(points) : points[u] > points[UserPos(user_id)]})

C20_CallerAlwaysListed ==
    [][(resp'.op = "GET /leaderboard" /\ Found(UserBySub(resp'.caller)))
       => \A points \in {PointsList(Len(users))} :
          LET leaderboard == resp'.body.leaderboard
              user_id == UserBySub(resp'.caller).id
          IN  /\ \E i \in 1..Len(leaderboard) : leaderboard[i].user_id = user_id
              /\ resp'.body.current_user_rank = RankAmong(points, user_id)]_vars

-----------------------------------------------------------------------------
(* Claims about the dashboard. *)

\* C21 as stated: the dashboard reports coins_earned = 30 + 20 x (number of the
\* caller's completed achievements) + 5 x (current streak), the coins_earned
\* of the balance endpoint in the same state, for any number of completed
\* achievements.
C21_DashboardCoinsAsBalance ==
    [][(resp'.op = "GET /dashboard" /\ resp'.status = 200)
       => resp'.body.stats.coins_earned
              = 30 + 20 * Cardinality({i \in 1..Len(uas) :
                                          /\ uas[i].user_id = resp'.body.id
                                          /\ uas[i].is_completed})
                   + 5 * calculate_user_streak(scans, resp'.body.id)]_vars

-----------------------------------------------------------------------------
(* Claims about the disease-prediction parsers. *)

\* The prediction that decides: the first of those with the highest score.
Deciding(hf_response) ==
    hf_response[CHOOSE t \in 1..Len(hf_response) :
                   /\ \A j \in 1..Len(hf_response) :
                          hf_response[j].score <= hf_response[t].score
                   /\ \A j \in 1..(t - 1) :
                          hf_response[j].score < hf_response[t].score]

\* The label contains "healthy".
ContainsHealthy(label) ==
    \E i \in 1..Len(label) : label[i] = "healthy" \/ label[i] = "unhealthy"

\* The part of the title-cased label after " With ", the whole label when
\* " With " is absent, written out for the labels of the model.
NamedDisease(label) ==
    CASE label = <<"tomato", "with", "late", "blight">> -> "Late Blight"
      [] label = <<"tomato", "late", "blight">> -> "Tomato Late Blight"
      [] label = <<"with", "rust">> -> "With Rust"
      [] label = <<"carrot", "leaf">> -> "Carrot Leaf"
      [] label = <<"leaf", "with", "rust", "with", "blight">> -> "Rust With Blight"
      [] label = <<"tomato", "with", "healthy", "leaf">> -> "Healthy Leaf"
      [] label = <<"unhealthy", "leaf">> -> "Unhealthy Leaf"
      [] label = <<"healthy", "tomato", "plant">> -> "Healthy Tomato Plant"

\* The label has the form "<Host> With <Disease>".
WithForm(label) == \E i \in 2..(Len(label) - 1) : label[i] = "with"

\* The claimed health score of an unhealthy plant: max(20, (1 - score) x 100).
ClaimedHealth(score) == IF 100 - score > 20 THEN 100 - score ELSE 20

\* C22: the new-plant parser decides by the highest-score prediction alone;
\* the plant is unhealthy iff that label does not contain "healthy" and its
\* score exceeds 0.5; healthy gives is_healthy, no disease, health_score 100;
\* unhealthy gives the disease named after " With " (the whole title-cased
\* label without it) and health_score max(20, (1 - score) x 100); no result
\* is healthy with a disease.
C22_NewPlantParsing ==
    resp.op = "parsed"
    => LET top == Deciding(resp.req.hf_response)
           result == resp.body.new_plant
           unhealthy == ~ContainsHealthy(top.label) /\ top.score > 50
       IN  /\ result.is_healthy = ~unhealthy
           /\ result.confidence = top.score
           /\ ~unhealthy => (result.disease = None /\ result.health_score = 100)
           /\ unhealthy => /\ result.disease = NamedDisease(top.label)
                           /\ result.health_score = ClaimedHealth(top.score)
           /\ ~(result.is_healthy /\ result.disease # None)

\* C22 witness: the second prediction outscores a healthy first one with 0.8
\* and names Late Blight: unhealthy with health_score 20.
C22_Witness ==
    /\ resp.op = "parsed"
    /\ Len(resp.req.hf_response) = 2
    /\ resp.req.hf_response[1] = [label |-> <<"healthy", "tomato", "plant">>, score |-> 60]
    /\ resp.req.hf_response[2] = [label |-> <<"tomato", "with", "late", "blight">>,
                                  score |-> 80]
    /\ ~resp.body.new_plant.is_healthy
    /\ resp.body.new_plant.disease = "Late Blight"
    /\ resp.body.new_plant.health_score = 20

\* C28 as stated: for the same list the rescan parser gives the healthy flag,
\* the disease (for "<Host> With <Disease>" labels) and the health_score of
\* the new-plant parser (100, or max(20, (1 - confidence) x 100)), with the
\* stored species and confidence 1.0.
C28_SharedCore ==
    resp.op = "parsed"
    => LET top == Deciding(resp.req.hf_response)
           new_plant == resp.body.new_plant
           rescan == resp.body.rescan
       IN  /\ rescan.is_healthy = new_plant.is_healthy
           /\ WithForm(top.label) => rescan.disease = new_plant.disease
           /\ rescan.health_score = new_plant.health_score
           /\ rescan.health_score
                  = (IF rescan.is_healthy THEN 100 ELSE ClaimedHealth(top.score))
           /\ rescan.species = resp.req.known_species
           /\ rescan.confidence = 100

\* C28 amended: for the same list the rescan parser gives the healthy flag of
\* the new-plant parser, its disease for "<Host> With <Disease>" labels, and
\* its health_score 100 and recommendations when healthy; when unhealthy the
\* rescan health_score is max(30, 85 - 55 x confidence) where the new-plant
\* parser gives max(20, (1 - confidence) x 100); the rescan result carries
\* the stored species and confidence 1.0.
C28_SharedCoreButHealth ==
    resp.op = "parsed"
    => LET top == Deciding(resp.req.hf_response)
           new_plant == resp.body.new_plant
           rescan == resp.body.rescan
           scaled == 85 - ((55 * top.score) \div 100)
       IN  /\ rescan.is_healthy = new_plant.is_healthy
           /\ WithForm(top.label) => rescan.disease = new_plant.disease
           /\ rescan.is_healthy
                 => /\ rescan.health_score = 100
                    /\ new_plant.health_score = 100
                    /\ rescan.care_recommendations = new_plant.care_recommendations
           /\ ~rescan.is_healthy
                 => /\ rescan.health_score = (IF scaled > 30 THEN scaled ELSE 30)
                    /\ new_plant.health_score = ClaimedHealth(top.score)
           /\ rescan.species = resp.req.known_species
           /\ rescan.confidence = 100

\* C28 witness: Late Blight at 0.6 is 52 for the rescan and 40 for a new plant,
\* with the same disease name.
C28_Witness ==
    /\ resp.op = "parsed"
    /\ Deciding(resp.req.hf_response)
           = [label |-> <<"tomato", "with", "late", "blight">>, score |-> 60]
    /\ resp.body.rescan.disease = "Late Blight"
    /\ resp.body.new_plant.disease = "Late Blight"
    /\ resp.body.rescan.health_score = 52
    /\ resp.body.new_plant.health_score = 40
    /\ resp.body.rescan.species = "Nephrolepis"

-----------------------------------------------------------------------------
(* Claims about image compression. *)

\* C23 as stated: an image of more than 800 KB is saved first at quality 85,
\* then at qualities 10 lower each time and never below 20, and what is
\* returned is at most 800 KB unless quality 20 was reached; an image of at
\* most 800 KB is returned unchanged.
C23_QualityFloor ==
    (resp.op = "compress_image" /\ resp.req.decodable)
    => LET saved == resp.body.saved
       IN  /\ resp.req.original_size <= 800
                 => (resp.body.data = "image_data"
                     /\ resp.body.size = resp.req.original_size)
           /\ resp.req.original_size > 800
                 => /\ saved[1] = 85
                    /\ \A i \in 2..Len(saved) : saved[i] = saved[i - 1] - 10
                    /\ \A i \in 1..Len(saved) : saved[i] >= 20
                    /\ (resp.body.size <= 800 \/ saved[Len(saved)] = 20)

-----------------------------------------------------------------------------
(* Claims about the public achievement list. *)

\* C24 as stated: GET /api/v1/achievements/ answers 404 when the catalog
\* holds no active achievement and 200 with the active achievements otherwise.
C24_NotSeededIs404 ==
    [][resp'.op = "GET /achievements/"
       => IF \E k \in 1..Len(catalog) : catalog[k].is_active
          THEN /\ resp'.status = 200
               /\ resp'.body.achievements
                      = SelectSeq(catalog, LAMBDA a : a.is_active)
          ELSE resp'.status = 404]_vars

-----------------------------------------------------------------------------
(* Claims about token verification. *)

\* C25 as stated: a verification that needed the key set and could not fetch
\* it (cache empty before and after, kid readable) is answered 500; an unknown
\* kid, an expired signature and invalid claims are answered 401; a failed
\* fetch leaves the cache empty; a filled cache never changes again.
C25_FetchFailureIs500 ==
    [][resp'.op = "verify_cognito_token"
       => /\ (~jwks_cache.hit /\ ~jwks_cache'.hit /\ resp'.req.kid # None)
                => resp'.status = 500
          /\ (jwks_cache'.hit /\ resp'.req.kid # None
                /\ (~HasKid(jwks_cache'.keys, resp'.req.kid)
                      \/ resp'.req.expired \/ ~resp'.req.issuer_ok))
                => resp'.status = 401
          /\ jwks_cache.hit => jwks_cache' = jwks_cache]_vars

-----------------------------------------------------------------------------
(* Claims about requests that run at the same time. *)

\* C26 as stated: whatever the interleaving of purchase requests, a purchase
\* succeeds only if the user's earned coins minus the cost of the coupons
\* already committed for the user cover its cost; so the total cost of a
\* user's coupons never exceeds the earned coins.
C26_NoOverspending ==
    [][(coupons' # coupons /\ resp'.op = "POST /storefront/purchase")
       => /\ CoinsEarned(resp'.body.id) - CoinsSpent(coupons, resp'.body.id)
                >= resp'.req.cost_coins
          /\ CoinsSpent(coupons', resp'.body.id) <= CoinsEarned(resp'.body.id)]_vars

\* C27 as stated: whatever the interleaving of initialisation runs, there is
\* at most one UserAchievement row per (user, achievement) pair.
C27_OneRowPerPair ==
    \A u \in 1..Len(users) : \A a \in 1..Len(catalog) :
        Cardinality(RowsFor(uas, users[u].id, catalog[a].id)) <= 1

-----------------------------------------------------------------------------
(* Claims about the retry loop of the disease classifier. *)

\* The first attempt, among the first n, at which the provider answers with a
\* body that is not about loading; 0 when there is none.
FirstAnswer(provider, n) ==
    IF \E k \in 1..n : provider[k] \in {"predictions", "error_body"}
    THEN CHOOSE k \in 1..n :
             /\ provider[k] \in {"predictions", "error_body"}
             /\ \A j \in 1..(k - 1) : provider[j] \notin {"predictions", "error_body"}
    ELSE 0

\* What the loop owes a call allowed r retries: at most r + 1 attempts, the
\* 60-second timeout on the first only, a wait after every attempt but the
\* last, and an end at the first answer with that answer, or after r + 1
\* attempts with 503.
RetryContract(r) ==
    LET provider == resp.req.provider
        first == FirstAnswer(provider, r + 1)
        made == Len(resp.body.timeouts)
    IN  /\ made <= r + 1
        /\ \A k \in 1..made : resp.body.timeouts[k] = IF k = 1 THEN 60 ELSE 30
        /\ Len(resp.body.sleeps) = made - 1
        /\ \A k \in 1..(made - 1) : resp.body.sleeps[k] > 0
        /\ IF first = 0
           THEN resp.status = 503 /\ made = r + 1
           ELSE /\ resp.status = 200
                /\ made = first
                /\ resp.body.response = provider[first]

\* C29 as stated: the loop makes at most (configured retries + 1) attempts, by
\* default one retry and so at most two attempts, waits between attempts, uses
\* the 60-second timeout on the first attempt only, and ends with the
\* provider's response or, once the attempts are used up, with 503.
C29_RetryLoop ==
    resp.op = "query_huggingface_model"
    => RetryContract(IF resp.req.max_retries = UnsetNum THEN 1
                     ELSE resp.req.max_retries)

\* C29 amended: the same, the default being two retries, so at most three
\* attempts.
C29_RetryLoopDefaultTwo ==
    resp.op = "query_huggingface_model"
    => RetryContract(IF resp.req.max_retries = UnsetNum THEN 2
                     ELSE resp.req.max_retries)

\* A call with the default that retries twice and then gets its predictions.
C29_Witness ==
    /\ resp.op = "query_huggingface_model"
    /\ resp.req.max_retries = UnsetNum
    /\ resp.req.provider[1] = "loading"
    /\ resp.req.provider[2] = "timeout"
    /\ resp.status = 200
    /\ resp.body.sleeps = <<10, 5>>

-----------------------------------------------------------------------------
(* Claims about the completion of achievements. *)

\* Completed exactly when stamped, and completed only with the requirement met.
CompletionConsistent(row) ==
    /\ row.is_completed <=> row.completed_at # NoneNum
    /\ row.is_completed
         => row.current_progress >= AchievementOf(row).requirement_value

\* C30: in every state reached through initialisation and progress updates a
\* UserAchievement row is completed if and only if its completed_at is set,
\* and a completed row's progress is at least its achievement's requirement;
\* a row created by initialisation has progress 0, is not completed and has
\* no completion timestamp.
C30_CompletionInvariant ==
    /\ [](\A i \in 1..Len(uas) : CompletionConsistent(uas[i]))
    /\ [][\A i \in (Len(uas) + 1)..Len(uas') :
              /\ uas'[i].current_progress = 0
              /\ ~uas'[i].is_completed
              /\ uas'[i].completed_at = NoneNum]_vars

\* A user holds a completed row next to a row still in progress.
C30_Witness ==
    \E i, j \in 1..Len(uas) :
        /\ uas[i].user_id = uas[j].user_id
        /\ uas[i].is_completed
        /\ uas[i].completed_at # NoneNum
        /\ ~uas[j].is_completed
        /\ uas[j].current_progress > 0

====
